---- MODULE Spec2Model ----
(***************************************************************************)
(* Multi-vector store (backend/app/db/milvus.py) and schema migration      *)
(* manager (backend/app/db/migration_utils.py).                            *)
(*                                                                         *)
(* One collection is modelled.  A row is a record keyed by field name; a   *)
(* legacy row has only the four legacy fields, so record.get(k, default)   *)
(* is modelled by Get.  Floats are modelled by integers (0 for 0.0).  The  *)
(* store-assigned primary key pk is read by no modelled code path and is   *)
(* left out of the rows.                                                   *)
(***************************************************************************)
EXTENDS Integers, Sequences, FiniteSets, TLC

VARIABLES
    collection,        \* the store: [exists, fields, rows]
    pc,                \* position of perform_safe_migration
    compatibility,     \* result of check_schema_compatibility
    all_data,          \* _create_safe_backup: rows accumulated so far
    offset,            \* _create_safe_backup: offset cursor
    backup_data,       \* safe_migrate_collection: [none, data]
    migrated_count,    \* _restore_with_new_schema: rows inserted so far
    restore_i,         \* _restore_with_new_schema: loop index i
    migration_result,  \* the outcome dictionary
    pre,               \* history: the store when the invocation started
    trace,             \* history: store calls of this invocation, in order
    faults,            \* history: store calls of this invocation that raised
    runs,              \* history: number of invocations so far
    call,              \* last direct call of MilvusManager: [op, migrate_existing, raised]
    search_pc,         \* position of MilvusManager.search
    search_args,       \* its arguments: [data, topk, media_type_filter, time_range_filter]
    use_old_schema,    \* FALSE in _search_with_new_schema, TRUE in the fallback
    results,           \* coarse hits of client.search, one list per query vector
    futures,           \* the executor's tasks: [image_id, state, out]
    scores,            \* (score, metadata) pairs in completion order
    search_result,     \* [status, value]: what search returned or that it raised
    inserts,           \* history: number of insert calls so far
    search_events,     \* history: what happened to the store calls of this search
    hung,              \* tasks whose client.query has not returned and never will
    caller,            \* ChatService.create_chat_stream: position and locals
    other              \* the locals of a second invocation of perform_safe_migration

vars == <<call, search_pc, search_args, use_old_schema, results, futures, scores,
          search_result, inserts, collection, pc, compatibility, all_data, offset, backup_data,
          migrated_count, restore_i, migration_result, pre, trace, faults, runs,
          search_events, hung, caller, other>>

migVars == <<pc, compatibility, all_data, offset, backup_data, migrated_count,
             restore_i, migration_result, pre, trace, faults, runs>>

\* the invocation that is running and the one that is waiting
bothMigrations == <<migVars, other>>

searchVars == <<search_pc, search_args, use_old_schema, results, futures, scores,
                search_result, inserts, search_events, hung>>

\* everything perform_safe_migration leaves alone
notMigration == <<call, searchVars, caller, other>>

----------------------------------------------------------------------------
(* Bounds of the model *)

MaxRows == 2
MaxRuns == 2

----------------------------------------------------------------------------
(* Dictionaries *)

Get(record, k, default) == IF k \in DOMAIN record THEN record[k] ELSE default

Put(record, k, v) == [x \in DOMAIN record \cup {k} |-> IF x = k THEN v ELSE record[x]]

Min(a, b) == IF a <= b THEN a ELSE b

\* python slice s[from : to] with 0-based from, exclusive to
Slice(s, from, to) == SubSeq(s, from + 1, Min(to, Len(s)))

----------------------------------------------------------------------------
(* The collection *)

LegacyFields == {"vector", "image_id", "page_number", "file_id"}

required_new_fields == <<"media_type", "timestamp_start", "timestamp_end", "duration", "segment_id">>

NewFields == {required_new_fields[n] : n \in 1..Len(required_new_fields)}

Range(s) == {s[n] : n \in 1..Len(s)}

NoCollection == [exists |-> FALSE, fields |-> {}, rows |-> <<>>]

Groups == <<"g1", "g2", "g3">>
Files == <<"f1", "f2">>
MediaTypes == <<"image", "audio", "video_frame">>

\* the n-th row of a collection written under the current shape
CurrentRow(n) ==
    [vector |-> <<(n % 3) - 1, ((n \div 3) % 3) - 1>>,
     image_id |-> Groups[(n % 3) + 1],
     page_number |-> n,
     file_id |-> Files[(n % 2) + 1],
     media_type |-> MediaTypes[(n % 3) + 1],
     timestamp_start |-> n % 2,
     timestamp_end |-> (n % 2) + 1,
     duration |-> 1,
     segment_id |-> IF n % 3 = 0 THEN "" ELSE Groups[(n % 3) + 1]]

RowWithFields(n, fs) == [k \in fs |-> CurrentRow(n)[k]]

----------------------------------------------------------------------------
(* MilvusManager.create_collection and its helpers.  F is the set of store  *)
(* calls that raise during the call.                                        *)

None == [none |-> TRUE, data |-> <<>>]

Some(data) == [none |-> FALSE, data |-> data]

\* python truthiness of an Optional[List]
Truthy(opt) == ~opt.none /\ opt.data # <<>>

BackupLimit == 100000

BackupCollectionData(c, F) ==
    IF ~c.exists THEN None
    ELSE IF "query" \in F THEN None
    ELSE Some(Slice(c.rows, 0, BackupLimit))

\* mutant: the page number is not carried over
MigratedRecord_ZeroPage(record) ==
    [vector |-> Get(record, "vector", "None"),
     image_id |-> Get(record, "image_id", "None"),
     page_number |-> 0,
     file_id |-> Get(record, "file_id", "None"),
     media_type |-> Get(record, "media_type", "image"),
     timestamp_start |-> Get(record, "timestamp_start", 0),
     timestamp_end |-> Get(record, "timestamp_end", 0),
     duration |-> Get(record, "duration", 0),
     segment_id |-> Get(record, "segment_id", "")]

\* mutant: a missing media_type is filled with the empty string
MigratedRecord_EmptyMedia(record) ==
    [vector |-> Get(record, "vector", "None"),
     image_id |-> Get(record, "image_id", "None"),
     page_number |-> Get(record, "page_number", 0),
     file_id |-> Get(record, "file_id", "None"),
     media_type |-> Get(record, "media_type", ""),
     timestamp_start |-> Get(record, "timestamp_start", 0),
     timestamp_end |-> Get(record, "timestamp_end", 0),
     duration |-> Get(record, "duration", 0),
     segment_id |-> Get(record, "segment_id", "")]

\* lines 185-196: the record built for a backed-up row
MigratedRecord(record) ==
    [vector |-> Get(record, "vector", "None"),
     image_id |-> Get(record, "image_id", "None"),
     page_number |-> Get(record, "page_number", 0),
     file_id |-> Get(record, "file_id", "None"),
     media_type |-> Get(record, "media_type", "image"),
     timestamp_start |-> Get(record, "timestamp_start", 0),
     timestamp_end |-> Get(record, "timestamp_end", 0),
     duration |-> Get(record, "duration", 0),
     segment_id |-> Get(record, "segment_id", "")]

MigratedBatch(batch) == [n \in 1..Len(batch) |-> MigratedRecord(batch[n])]

\* client.insert: raises on a missing collection or a store fault
StoreInsert(c, data, F) ==
    IF ~c.exists \/ "insert" \in F
    THEN [collection |-> c, raised |-> TRUE]
    ELSE [collection |-> [c EXCEPT !.rows = c.rows \o data], raised |-> FALSE]

RestoreCollectionData(c, data_records, F) ==
    IF data_records = <<>> THEN [collection |-> c, raised |-> FALSE]
    ELSE StoreInsert(c, MigratedBatch(data_records), F)

CreateCollection(c, migrate_existing, F) ==
    LET existing_data == IF c.exists /\ migrate_existing
                         THEN BackupCollectionData(c, F) ELSE None
        dropped == IF c.exists THEN NoCollection ELSE c
        created == [exists |-> TRUE, fields |-> LegacyFields \cup NewFields, rows |-> <<>>]
    IN  IF c.exists /\ "drop" \in F THEN [collection |-> c, raised |-> TRUE]
        ELSE IF "create" \in F THEN [collection |-> dropped, raised |-> TRUE]
        ELSE IF "index" \in F THEN [collection |-> created, raised |-> TRUE]
        ELSE IF Truthy(existing_data) /\ migrate_existing
             THEN RestoreCollectionData(created, existing_data.data, F)
             ELSE [collection |-> created, raised |-> FALSE]

\* at most one store call of a call raises
CreateFaults == {{}} \cup {{f} : f \in {"query", "drop", "create", "index", "insert"}}

----------------------------------------------------------------------------
(* DatabaseMigrationManager *)

\* mutant: every existing collection is reported as needing migration
CheckSchemaCompatibility_AlwaysMigrate(c, raises) ==
    IF raises
    THEN [exists |-> FALSE, compatible |-> FALSE, needs_migration |-> FALSE,
          error |-> "store", message |-> "Error checking compatibility"]
    ELSE IF ~c.exists
    THEN [exists |-> FALSE, compatible |-> TRUE, needs_migration |-> FALSE,
          message |-> "Collection does not exist, can create new"]
    ELSE [exists |-> TRUE, compatible |-> FALSE, needs_migration |-> TRUE,
          missing_fields |-> required_new_fields,
          message |-> "Collection exists but missing fields"]

CheckSchemaCompatibility(c, raises) ==
    IF raises
    THEN [exists |-> FALSE, compatible |-> FALSE, needs_migration |-> FALSE,
          error |-> "store", message |-> "Error checking compatibility"]
    ELSE IF ~c.exists
    THEN [exists |-> FALSE, compatible |-> TRUE, needs_migration |-> FALSE,
          message |-> "Collection does not exist, can create new"]
    ELSE LET missing_fields == SelectSeq(required_new_fields, LAMBDA f : f \notin c.fields)
         IN  IF missing_fields # <<>>
             THEN [exists |-> TRUE, compatible |-> FALSE, needs_migration |-> TRUE,
                   missing_fields |-> missing_fields,
                   message |-> "Collection exists but missing fields"]
             ELSE [exists |-> TRUE, compatible |-> TRUE, needs_migration |-> FALSE,
                   message |-> "Collection is compatible with new schema"]

InitialResult ==
    [success |-> FALSE, backup_created |-> FALSE, data_migrated |-> FALSE,
     records_processed |-> 0, errors |-> <<>>]

\* mutant: the exception is swallowed and the run is reported as done
MigrationFailed_Silent(result) ==
    Put([result EXCEPT !.success = TRUE], "message", "Migration failed")

\* the except branch of safe_migrate_collection
MigrationFailed(result) ==
    Put([result EXCEPT !.errors = Append(@, "Migration failed")],
        "message", "Migration failed")

\* mutant: the success path sets the flag only
MigrationSucceeded_NoMessage(result) == [result EXCEPT !.success = TRUE]

\* lines 128-129
MigrationSucceeded(result) ==
    Put([result EXCEPT !.success = TRUE], "message", "Successfully migrated collection")

ValidateMigration(c, raises, expected_count) ==
    IF raises THEN [success |-> FALSE, error |-> "store", message |-> "Validation failed"]
    ELSE IF ~c.exists
    THEN [success |-> FALSE, message |-> "Collection does not exist after migration"]
    ELSE LET actual_count == Len(c.rows)
         IN  IF ~expected_count.none /\ actual_count # expected_count.data
             THEN [success |-> FALSE, record_count |-> actual_count,
                   message |-> "Record count mismatch"]
             ELSE [success |-> TRUE, record_count |-> actual_count,
                   message |-> "Migration validation passed"]

backup == TRUE

backup_batch_size == 1000

restore_batch_size == 100

----------------------------------------------------------------------------
(* perform_safe_migration, one store call per step *)

FieldSets == {LegacyFields, LegacyFields \cup {"media_type"}, LegacyFields \cup NewFields}

\* row counts of the initial collection: small ones and the page boundary
RowCounts == (0..MaxRows) \cup {backup_batch_size, backup_batch_size + 1, 2 * backup_batch_size}

InitialCollections ==
    {NoCollection} \cup
    {[exists |-> TRUE, fields |-> fs, rows |-> [n \in 1..M |-> RowWithFields(n - 1 + v, fs)]] :
        fs \in FieldSets, M \in RowCounts, v \in 0..MaxRows}

MigIdle ==
    /\ pc = "idle"
    /\ compatibility = [exists |-> FALSE]
    /\ all_data = <<>>
    /\ offset = 0
    /\ backup_data = None
    /\ migrated_count = 0
    /\ restore_i = 0
    /\ migration_result = InitialResult
    /\ pre = NoCollection
    /\ trace = <<>>
    /\ faults = {}
    /\ runs = 0

\* an invocation of perform_safe_migration that has not started
OtherIdle ==
    [pc |-> "idle", compatibility |-> [exists |-> FALSE], all_data |-> <<>>, offset |-> 0,
     backup_data |-> None, migrated_count |-> 0, restore_i |-> 0,
     migration_result |-> InitialResult, pre |-> NoCollection, trace |-> <<>>,
     faults |-> {}, runs |-> 0]

NoCall == [op |-> "none", migrate_existing |-> FALSE, raised |-> FALSE]

\* create_chat_stream before it is called; lookups and deleted are history:
\* the catalog lookups made and the delete_files calls made, in order
CallerIdle ==
    [pc |-> "idle", top_K |-> 0, score_threshold |-> 0, result_score |-> <<>>,
     cut_score |-> <<>>, i |-> 0, file_used |-> <<>>, error |-> "",
     lookups |-> <<>>, deleted |-> <<>>]

SearchIdle ==
    /\ search_pc = "idle"
    /\ search_args = [data |-> <<>>, topk |-> 0, media_type_filter |-> "", time_range_filter |-> <<>>]
    /\ use_old_schema = FALSE
    /\ results = <<>>
    /\ futures = <<>>
    /\ scores = <<>>
    /\ search_result = [status |-> "none", value |-> <<>>]
    /\ inserts = 0
    /\ search_events = {}
    /\ hung = {}

InitMigrate ==
    /\ collection \in InitialCollections
    /\ MigIdle
    /\ call = NoCall
    /\ SearchIdle
    /\ caller = CallerIdle
    /\ other = OtherIdle

\* mutant: the migration starts with the drop
Invoke_DropFirst(raises) ==
    /\ pc \in {"idle", "done"}
    /\ runs < MaxRuns
    /\ LET compat == CheckSchemaCompatibility(collection, raises)
       IN  /\ compatibility' = compat
           /\ IF ~compat.needs_migration
              THEN /\ migration_result' =
                        Put([InitialResult EXCEPT !.success = TRUE], "message", compat.message)
                   /\ pc' = "validate"
              ELSE /\ migration_result' = InitialResult
                   /\ pc' = "drop"
    /\ pre' = collection
    /\ trace' = <<>>
    /\ faults' = IF raises THEN {"check"} ELSE {}
    /\ runs' = runs + 1
    /\ all_data' = <<>>
    /\ offset' = 0
    /\ backup_data' = None
    /\ migrated_count' = 0
    /\ restore_i' = 0
    /\ UNCHANGED <<collection, notMigration>>

\* lines 263, 81-97: entry, CHECK and the no-migration return
Invoke(raises) ==
    /\ pc \in {"idle", "done"}
    /\ runs < MaxRuns
    /\ LET compat == CheckSchemaCompatibility(collection, raises)
       IN  /\ compatibility' = compat
           /\ IF ~compat.needs_migration
              THEN /\ migration_result' =
                        Put([InitialResult EXCEPT !.success = TRUE], "message", compat.message)
                   /\ pc' = "validate"
              ELSE /\ migration_result' = InitialResult
                   /\ pc' = IF backup /\ compat.exists THEN "backup" ELSE "drop"
    /\ pre' = collection
    /\ trace' = <<>>
    /\ faults' = IF raises THEN {"check"} ELSE {}
    /\ runs' = runs + 1
    /\ all_data' = <<>>
    /\ offset' = 0
    /\ backup_data' = None
    /\ migrated_count' = 0
    /\ restore_i' = 0
    /\ UNCHANGED <<collection, notMigration>>

\* mutant: the loop ends after a page that is not longer than the page size
BackupPage_OnePage(raises) ==
    /\ pc = "backup"
    /\ IF raises \/ ~collection.exists
       THEN /\ backup_data' = None
            /\ migration_result' = [migration_result EXCEPT !.backup_created = FALSE]
            /\ pc' = IF compatibility.exists THEN "drop" ELSE "create"
            /\ faults' = faults \cup {"backup"}
            /\ UNCHANGED <<all_data, offset, trace>>
       ELSE LET batch_data == Slice(collection.rows, offset, offset + backup_batch_size)
                more == batch_data # <<>> /\ Len(batch_data) > backup_batch_size
            IN  /\ all_data' = all_data \o batch_data
                /\ offset' = offset + Len(batch_data)
                /\ trace' = Append(trace, "backup_page")
                /\ IF more
                   THEN /\ pc' = "backup"
                        /\ UNCHANGED <<backup_data, migration_result>>
                   ELSE /\ backup_data' = Some(all_data')
                        /\ migration_result' = [migration_result EXCEPT !.backup_created = TRUE]
                        /\ pc' = IF compatibility.exists THEN "drop" ELSE "create"
                /\ UNCHANGED faults
    /\ UNCHANGED <<collection, compatibility, migrated_count, restore_i, pre, runs, notMigration>>

\* mutant: without the guard on a short page the loop ends on an empty page only
BackupPage_UntilEmpty(raises) ==
    /\ pc = "backup"
    /\ IF raises \/ ~collection.exists
       THEN /\ backup_data' = None
            /\ migration_result' = [migration_result EXCEPT !.backup_created = FALSE]
            /\ pc' = IF compatibility.exists THEN "drop" ELSE "create"
            /\ faults' = faults \cup {"backup"}
            /\ UNCHANGED <<all_data, offset, trace>>
       ELSE LET batch_data == Slice(collection.rows, offset, offset + backup_batch_size)
                more == batch_data # <<>>
            IN  /\ all_data' = all_data \o batch_data
                /\ offset' = offset + Len(batch_data)
                /\ trace' = Append(trace, "backup_page")
                /\ IF more
                   THEN /\ pc' = "backup"
                        /\ UNCHANGED <<backup_data, migration_result>>
                   ELSE /\ backup_data' = Some(all_data')
                        /\ migration_result' = [migration_result EXCEPT !.backup_created = TRUE]
                        /\ pc' = IF compatibility.exists THEN "drop" ELSE "create"
                /\ UNCHANGED faults
    /\ UNCHANGED <<collection, compatibility, migrated_count, restore_i, pre, runs, notMigration>>

\* lines 103-109 and one iteration of the loop of _create_safe_backup
BackupPage(raises) ==
    /\ pc = "backup"
    /\ IF raises \/ ~collection.exists
       THEN /\ backup_data' = None
            /\ migration_result' = [migration_result EXCEPT !.backup_created = FALSE]
            /\ pc' = IF compatibility.exists THEN "drop" ELSE "create"
            /\ faults' = faults \cup {"backup"}
            /\ UNCHANGED <<all_data, offset, trace>>
       ELSE LET batch_data == Slice(collection.rows, offset, offset + backup_batch_size)
                more == batch_data # <<>> /\ ~(Len(batch_data) < backup_batch_size)
            IN  /\ all_data' = all_data \o batch_data
                /\ offset' = offset + Len(batch_data)
                /\ trace' = Append(trace, "backup_page")
                /\ IF more
                   THEN /\ pc' = "backup"
                        /\ UNCHANGED <<backup_data, migration_result>>
                   ELSE /\ backup_data' = Some(all_data')
                        /\ migration_result' = [migration_result EXCEPT !.backup_created = TRUE]
                        /\ pc' = IF compatibility.exists THEN "drop" ELSE "create"
                /\ UNCHANGED faults
    /\ UNCHANGED <<collection, compatibility, migrated_count, restore_i, pre, runs, notMigration>>

\* lines 112-115
DropExisting(raises) ==
    /\ pc = "drop"
    /\ IF raises
       THEN /\ migration_result' = MigrationFailed(migration_result)
            /\ pc' = "done"
            /\ faults' = faults \cup {"drop"}
            /\ UNCHANGED <<collection, trace>>
       ELSE /\ collection' = NoCollection
            /\ trace' = Append(trace, "drop")
            /\ pc' = "create"
            /\ UNCHANGED <<migration_result, faults>>
    /\ UNCHANGED <<compatibility, all_data, offset, backup_data, migrated_count, restore_i, pre, runs, notMigration>>

\* lines 118-122, and 128-129 when there is nothing to restore
CreateNew(F) ==
    /\ pc = "create"
    /\ LET r == CreateCollection(collection, FALSE, F)
       IN  /\ collection' = r.collection
           /\ IF r.raised
              THEN /\ migration_result' = MigrationFailed(migration_result)
                   /\ pc' = "done"
                   /\ faults' = faults \cup {"create"}
                   /\ UNCHANGED trace
              ELSE /\ trace' = Append(trace, "create")
                   /\ UNCHANGED faults
                   /\ IF Truthy(backup_data)
                      THEN /\ pc' = "restore"
                           /\ UNCHANGED migration_result
                      ELSE /\ pc' = "validate"
                           /\ migration_result' = MigrationSucceeded(migration_result)
    /\ UNCHANGED <<compatibility, all_data, offset, backup_data, migrated_count, restore_i, pre, runs, notMigration>>

\* one iteration of the loop of _restore_with_new_schema, and lines 123-129 after the last
RestoreBatch(raises) ==
    /\ pc = "restore"
    /\ LET batch == Slice(backup_data.data, restore_i, restore_i + restore_batch_size)
           r == StoreInsert(collection, MigratedBatch(batch), IF raises THEN {"insert"} ELSE {})
       IN  /\ collection' = r.collection
           /\ IF r.raised
              THEN /\ migration_result' = MigrationFailed(migration_result)
                   /\ pc' = "done"
                   /\ faults' = faults \cup {"insert"}
                   /\ UNCHANGED <<migrated_count, restore_i, trace>>
              ELSE /\ migrated_count' = migrated_count + Len(batch)
                   /\ restore_i' = restore_i + restore_batch_size
                   /\ trace' = Append(trace, "insert")
                   /\ UNCHANGED faults
                   /\ IF restore_i' < Len(backup_data.data)
                      THEN /\ pc' = "restore"
                           /\ UNCHANGED migration_result
                      ELSE /\ pc' = "validate"
                           /\ migration_result' = MigrationSucceeded(
                                [migration_result EXCEPT !.data_migrated = TRUE,
                                                         !.records_processed = migrated_count'])
    /\ UNCHANGED <<compatibility, all_data, offset, backup_data, pre, runs, notMigration>>

\* lines 266-270
Validate(raises) ==
    /\ pc = "validate"
    /\ migration_result' =
          IF migration_result.success
          THEN Put(migration_result, "validation", ValidateMigration(collection, raises, None))
          ELSE migration_result
    /\ pc' = "done"
    /\ faults' = IF raises THEN faults \cup {"validate"} ELSE faults
    /\ UNCHANGED <<collection, compatibility, all_data, offset, backup_data,
                   migrated_count, restore_i, pre, trace, runs, notMigration>>

NextMigrate ==
    \/ \E raises \in BOOLEAN : Invoke(raises)
    \/ \E raises \in BOOLEAN : BackupPage(raises)
    \/ \E raises \in BOOLEAN : DropExisting(raises)
    \/ \E F \in CreateFaults : CreateNew(F)
    \/ \E raises \in BOOLEAN : RestoreBatch(raises)
    \/ \E raises \in BOOLEAN : Validate(raises)

SpecMigrate == InitMigrate /\ [][NextMigrate]_vars

\* the thread that runs _create_safe_backup keeps running: an iteration of the
\* loop that can be taken is taken
SpecMigrateFair ==
    InitMigrate /\ [][NextMigrate]_vars /\ WF_vars(\E raises \in BOOLEAN : BackupPage(raises))

----------------------------------------------------------------------------
(* Direct calls of MilvusManager.create_collection and                      *)
(* MilvusManager.migrate_collection_schema, each one whole call             *)

CreateCollectionCall(migrate_existing, F) ==
    /\ runs < MaxRuns
    /\ LET r == CreateCollection(collection, migrate_existing, F)
       IN  /\ collection' = r.collection
           /\ call' = [op |-> "create_collection", migrate_existing |-> migrate_existing,
                       raised |-> r.raised]
    /\ pre' = collection
    /\ faults' = F
    /\ runs' = runs + 1
    /\ UNCHANGED <<pc, compatibility, all_data, offset, backup_data, migrated_count,
                   restore_i, migration_result, trace, searchVars, caller, other>>

\* lines 370-383: has_collection decides migrate_existing; errors are re-raised
MigrateCollectionSchema(F) ==
    /\ runs < MaxRuns
    /\ LET r == CreateCollection(collection, collection.exists, F)
       IN  /\ collection' = r.collection
           /\ call' = [op |-> "migrate_collection_schema", migrate_existing |-> collection.exists,
                       raised |-> r.raised]
    /\ pre' = collection
    /\ faults' = F
    /\ runs' = runs + 1
    /\ UNCHANGED <<pc, compatibility, all_data, offset, backup_data, migrated_count,
                   restore_i, migration_result, trace, searchVars, caller, other>>

NextCreate ==
    \/ \E m \in BOOLEAN, F \in CreateFaults : CreateCollectionCall(m, F)
    \/ \E F \in CreateFaults : MigrateCollectionSchema(F)

SpecCreate == InitMigrate /\ [][NextCreate]_vars

----------------------------------------------------------------------------
(* MilvusManager.search: coarse search, rerank fan-out, sort and cut *)

RECURSIVE SumSeq(_)
SumSeq(s) == IF s = <<>> THEN 0 ELSE s[1] + SumSeq(Tail(s))

RECURSIVE MaxSeq(_)
MaxSeq(s) ==
    IF Len(s) = 1 THEN s[1]
    ELSE LET half == Len(s) \div 2
             a == MaxSeq(SubSeq(s, 1, half))
             b == MaxSeq(SubSeq(s, half + 1, Len(s)))
         IN  IF a >= b THEN a ELSE b

\* m.T
Transpose(m) ==
    LET rows == Len(m) IN [k \in 1..Len(m[1]) |-> [j \in 1..rows |-> m[j][k]]]

\* np.dot(a, b) of two matrices
Dot(a, b) ==
    [i \in 1..Len(a) |->
        [j \in 1..Len(b[1]) |-> SumSeq([k \in 1..Len(b) |-> a[i][k] * b[k][j]])]]

\* mutant: the maximum is taken down the columns (over the query vectors)
MaxAxis1_Axis0(m) == [j \in 1..Len(m[1]) |-> MaxSeq([i \in 1..Len(m) |-> m[i][j]])]

\* m.max(1): the maximum of every row
MaxAxis1(m) == [i \in 1..Len(m) |-> MaxSeq(m[i])]

\* mutant: every query vector is matched with the last vector of the group
Score_LastVector(data, doc_vecs) ==
    SumSeq([i \in 1..Len(data) |-> Dot(data, Transpose(doc_vecs))[i][Len(doc_vecs)]])

\* line 237
Score(data, doc_vecs) == SumSeq(MaxAxis1(Dot(data, Transpose(doc_vecs))))

new_output_fields == LegacyFields \cup NewFields

old_output_fields == LegacyFields

OutputFields(old) == IF old THEN old_output_fields ELSE new_output_fields

Project(record, output_fields) == [k \in output_fields |-> record[k]]

\* the fields a filter expression names
FilterFields(args) ==
    (IF args.media_type_filter # "" THEN {"media_type"} ELSE {})
    \cup (IF Len(args.time_range_filter) = 2 THEN {"timestamp_start", "timestamp_end"} ELSE {})

\* lines 136-145: the filter expression, evaluated on a row
Matches(record, args) ==
    /\ args.media_type_filter # "" => record.media_type = args.media_type_filter
    /\ Len(args.time_range_filter) = 2 =>
          /\ record.timestamp_start >= args.time_range_filter[1]
          /\ record.timestamp_end <= args.time_range_filter[2]

NoFilter(args) == [args EXCEPT !.media_type_filter = "", !.time_range_filter = <<>>]

InnerProduct(q, v) == SumSeq([k \in 1..Len(q) |-> q[k] * v[k]])

RECURSIVE SortAsc(_)
\* mutant: sorted ascending (reverse = True lost)
SortAsc(s) ==
    IF s = <<>> THEN <<>>
    ELSE LET r == SortAsc(Tail(s))
             lower == SelectSeq(r, LAMBDA x : x[1] < s[1][1])
             rest == SelectSeq(r, LAMBDA x : ~(x[1] < s[1][1]))
         IN  lower \o <<s[1]>> \o rest

\* list.sort(key = first component, reverse = True): descending and stable, a
\* pair stays behind the pairs before it in s with an equal first component
\* (SortSeq moves an element forward only past those it precedes strictly)
SortDesc(s) == SortSeq(s, LAMBDA x, y : x[1] > y[1])

coarse_limit == 50

fetch_limit == 1000

max_workers == 300

\* client.search for one query vector: the limit best rows by inner product
Hits(c, q, args, output_fields) ==
    LET matching == SelectSeq(c.rows, LAMBDA record : Matches(record, args))
        ranked == SortDesc([n \in 1..Len(matching) |->
                              <<InnerProduct(q, matching[n].vector), matching[n]>>])
    IN  [n \in 1..Min(coarse_limit, Len(ranked)) |->
            [distance |-> ranked[n][1], entity |-> Project(ranked[n][2], output_fields)]]

\* client.query raises on a missing collection, an unknown field or a fault
QueryRaises(c, output_fields, fault) ==
    \/ fault
    \/ ~c.exists
    \/ ~(output_fields \subseteq c.fields)

\* client.search raises as client.query does, the filter's fields included
SearchRaises(c, args, output_fields, fault) ==
    QueryRaises(c, output_fields \cup FilterFields(args), fault)

CoarseSearch(c, args, output_fields) ==
    [i \in 1..Len(args.data) |-> Hits(c, args.data[i], args, output_fields)]

RECURSIVE Flatten(_)
Flatten(ss) == IF ss = <<>> THEN <<>> ELSE ss[1] \o Flatten(Tail(ss))

\* the elements of a sequence, each once, in order of first occurrence
Dedup(s) ==
    LET first == SelectSeq([n \in 1..Len(s) |-> n],
                           LAMBDA n : \A m \in 1..(n - 1) : s[m] # s[n])
    IN  [k \in 1..Len(first) |-> s[first[k]]]

\* mutant: one task per coarse hit
ImageIds_PerHit(res) ==
    LET hits == Flatten(res) IN [n \in 1..Len(hits) |-> hits[n].entity.image_id]

\* lines 189-192: the set image_ids, as the sequence the tasks are made from
ImageIds(res) ==
    LET hits == Flatten(res) IN Dedup([n \in 1..Len(hits) |-> hits[n].entity.image_id])

\* lines 196-238; reads the collection when it runs
RerankSingleDoc(image_id, data, c, output_fields, old, fault) ==
    IF QueryRaises(c, output_fields, fault)
    THEN [raised |-> TRUE, score |-> 0, metadata |-> <<>>, doc_colbert_vecs |-> <<>>]
    ELSE LET matching == SelectSeq(c.rows, LAMBDA record : record.image_id = image_id)
             doc_colbert_vecs == Slice([n \in 1..Len(matching) |->
                                          Project(matching[n], output_fields)],
                                       0, fetch_limit)
         IN  IF doc_colbert_vecs = <<>>
             THEN [raised |-> FALSE, score |-> 0,
                   metadata |-> [image_id |-> image_id, file_id |-> "None",
                                 page_number |-> "None"],
                   doc_colbert_vecs |-> <<>>]
             ELSE LET first_record == doc_colbert_vecs[1]
                      metadata ==
                        IF old
                        THEN [image_id |-> image_id,
                              file_id |-> first_record.file_id,
                              page_number |-> first_record.page_number,
                              media_type |-> "image",
                              timestamp_start |-> 0,
                              timestamp_end |-> 0,
                              duration |-> 0,
                              segment_id |-> ""]
                        ELSE [image_id |-> image_id,
                              file_id |-> first_record.file_id,
                              page_number |-> first_record.page_number,
                              media_type |-> Get(first_record, "media_type", "image"),
                              timestamp_start |-> Get(first_record, "timestamp_start", 0),
                              timestamp_end |-> Get(first_record, "timestamp_end", 0),
                              duration |-> Get(first_record, "duration", 0),
                              segment_id |-> Get(first_record, "segment_id", "")]
                      doc_vecs == [n \in 1..Len(doc_colbert_vecs) |-> doc_colbert_vecs[n].vector]
                  IN  [raised |-> FALSE, score |-> Score(data, doc_vecs),
                       metadata |-> metadata, doc_colbert_vecs |-> doc_colbert_vecs]

ResultKeys == {"image_id", "file_id", "page_number", "media_type", "timestamp_start",
               "timestamp_end", "duration", "segment_id"}

\* mutant: an empty list of scores is taken for a failure
Ranking_RaisesOnEmpty(ss, topk) ==
    [status |-> IF ss = <<>> THEN "raised" ELSE "returned", value |-> <<>>]

\* lines 251-265: sort, cut to topk, build the entries; a KeyError when a
\* selected metadata dict lacks a key
Ranking(ss, topk) ==
    LET top == Slice(SortDesc(ss), 0, topk)
    IN  IF \E n \in 1..Len(top) : ~(ResultKeys \subseteq DOMAIN top[n][2])
        THEN [status |-> "raised", value |-> <<>>]
        ELSE [status |-> "returned",
              value |-> [n \in 1..Len(top) |->
                           [score |-> top[n][1],
                            image_id |-> top[n][2].image_id,
                            file_id |-> top[n][2].file_id,
                            page_number |-> top[n][2].page_number,
                            media_type |-> top[n][2].media_type,
                            timestamp_start |-> top[n][2].timestamp_start,
                            timestamp_end |-> top[n][2].timestamp_end,
                            duration |-> top[n][2].duration,
                            segment_id |-> top[n][2].segment_id]]]

----------------------------------------------------------------------------
(* Callers of the store: ingestion, file deletion and search *)

V10 == <<1, 0>>
V01 == <<0, 1>>
V11 == <<1, 1>>
VNeg == <<-1, 0>>

\* the multi-vector embeddings of one page or segment
Embeddings == {<<V10, V01, V11>>, <<V10>>, <<VNeg>>}

Queries == {<<V10, V01>>, <<VNeg>>}

FileOf(image_id) == IF image_id = "g1" THEN "f1" ELSE "f2"

\* insert_to_milvus, lines 379-386: one call per page, no media keys
PageData ==
    {[colqwen_vecs |-> e, page_number |-> 0, image_id |-> g, file_id |-> FileOf(g)] :
        e \in Embeddings, g \in {"g1", "g2"}}

\* insert_media_to_milvus, lines 410-423: one call per segment
SegmentData ==
    {[colqwen_vecs |-> e, page_number |-> 0, image_id |-> g, file_id |-> FileOf(g),
      media_type |-> "audio", timestamp_start |-> 10, timestamp_end |-> 40,
      duration |-> 30, segment_id |-> g] :
        e \in {<<V01>>}, g \in {"g3"}}

SearchFilters ==
    {[media_type_filter |-> "", time_range_filter |-> <<>>],
     [media_type_filter |-> "audio", time_range_filter |-> <<10, 40>>]}

MaxInserts == 2
MaxTopK == 2

\* mutant: each record numbered by the position of its vector
InsertRecords_Position(data) ==
    LET colqwen_vecs == data.colqwen_vecs
        seq_length == Len(colqwen_vecs)
    IN  [i \in 1..seq_length |->
            [vector |-> colqwen_vecs[i],
             image_id |-> data.image_id,
             page_number |-> i - 1,
             file_id |-> data.file_id,
             media_type |-> Get(data, "media_type", "image"),
             timestamp_start |-> Get(data, "timestamp_start", 0),
             timestamp_end |-> Get(data, "timestamp_end", 0),
             duration |-> Get(data, "duration", 0),
             segment_id |-> Get(data, "segment_id", "")]]

\* MilvusManager.insert, lines 267-296
InsertRecords(data) ==
    LET colqwen_vecs == data.colqwen_vecs
        seq_length == Len(colqwen_vecs)
    IN  [i \in 1..seq_length |->
            [vector |-> colqwen_vecs[i],
             image_id |-> data.image_id,
             page_number |-> data.page_number,
             file_id |-> data.file_id,
             media_type |-> Get(data, "media_type", "image"),
             timestamp_start |-> Get(data, "timestamp_start", 0),
             timestamp_end |-> Get(data, "timestamp_end", 0),
             duration |-> Get(data, "duration", 0),
             segment_id |-> Get(data, "segment_id", "")]]

Insert(data) ==
    /\ inserts < MaxInserts
    /\ collection.exists
    /\ new_output_fields \subseteq collection.fields
    /\ collection' = StoreInsert(collection, InsertRecords(data), {}).collection
    /\ inserts' = inserts + 1
    /\ UNCHANGED <<search_pc, search_args, use_old_schema, results, futures, scores,
                   search_result, search_events, hung, call, bothMigrations, caller>>

\* mutant: the filter names one of the file ids only
DeleteFiles_OneFile(file_ids) ==
    /\ collection.exists
    /\ collection' = [collection EXCEPT
                        !.rows = SelectSeq(@, LAMBDA record :
                                     file_ids = {} \/ record.file_id # (CHOOSE f \in file_ids : TRUE))]
    /\ UNCHANGED <<inserts, search_pc, search_args, use_old_schema, results, futures, scores,
                   search_result, search_events, hung, call, bothMigrations>>

\* mutant: the rows of the files are kept and marked by an empty file_id
DeleteFiles_Tombstone(file_ids) ==
    /\ collection.exists
    /\ collection' = [collection EXCEPT
                        !.rows = [n \in 1..Len(@) |->
                                    IF @[n].file_id \in file_ids
                                    THEN [@[n] EXCEPT !.file_id = ""] ELSE @[n]]]
    /\ UNCHANGED <<inserts, search_pc, search_args, use_old_schema, results, futures, scores,
                   search_result, search_events, hung, call, bothMigrations>>

\* MilvusManager.delete_files, lines 19-28
DeleteFiles(file_ids) ==
    /\ collection.exists
    /\ collection' = [collection EXCEPT
                        !.rows = SelectSeq(@, LAMBDA record : record.file_id \notin file_ids)]
    /\ UNCHANGED <<inserts, search_pc, search_args, use_old_schema, results, futures, scores,
                   search_result, search_events, hung, call, bothMigrations>>

\* lines 121-129: entry of search
Search(data, topk, filters) ==
    /\ search_pc \in {"idle", "done"}
    /\ search_args' = [data |-> data, topk |-> topk,
                       media_type_filter |-> filters.media_type_filter,
                       time_range_filter |-> filters.time_range_filter]
    /\ search_pc' = "coarse"
    /\ use_old_schema' = FALSE
    /\ results' = <<>>
    /\ futures' = <<>>
    /\ scores' = <<>>
    /\ search_result' = [status |-> "none", value |-> <<>>]
    /\ search_events' = {}
    /\ hung' = {}
    /\ UNCHANGED <<inserts, collection, call, bothMigrations>>

\* lines 127-129: an exception of the new-schema attempt starts the old-schema
\* attempt; an exception of the old-schema attempt reaches the caller
Fallback ==
    IF use_old_schema
    THEN /\ search_result' = [status |-> "raised", value |-> <<>>]
         /\ search_pc' = "done"
         /\ UNCHANGED use_old_schema
    ELSE /\ use_old_schema' = TRUE
         /\ search_pc' = "coarse"
         /\ UNCHANGED search_result

\* lines 131-168 / 170-185 with 189-192 and 240-246: coarse search, then one
\* task submitted per image_id
Coarse(fault) ==
    /\ search_pc = "coarse"
    /\ LET output_fields == OutputFields(use_old_schema)
           args == IF use_old_schema THEN NoFilter(search_args) ELSE search_args
       IN  IF SearchRaises(collection, args, output_fields, fault)
           THEN /\ Fallback
                /\ search_events' = search_events \cup (IF fault THEN {"search_fault"} ELSE {})
                /\ UNCHANGED <<results, futures, scores>>
           ELSE /\ results' = CoarseSearch(collection, args, output_fields)
                /\ futures' = [n \in 1..Len(ImageIds(results')) |->
                                 [image_id |-> ImageIds(results')[n],
                                  state |-> "pending", out |-> <<>>]]
                /\ scores' = <<>>
                /\ search_pc' = "fanout"
                /\ UNCHANGED <<use_old_schema, search_result, search_events>>
    /\ UNCHANGED <<search_args, inserts, hung, collection, call, bothMigrations, caller>>

Running == {n \in 1..Len(futures) : futures[n].state = "running"}

Pending == {n \in 1..Len(futures) : futures[n].state = "pending"}

\* mutant: a thread per submitted task, no limit
TaskStart_Unbounded ==
    /\ search_pc = "fanout"
    /\ Pending # {}
    /\ LET n == CHOOSE x \in Pending : \A y \in Pending : x <= y
       IN  futures' = [futures EXCEPT ![n].state = "running"]
    /\ UNCHANGED <<search_pc, search_args, use_old_schema, results, scores, search_result,
                   inserts, search_events, hung, collection, call, bothMigrations, caller>>

\* a free worker takes the oldest queued task
TaskStart ==
    /\ search_pc = "fanout"
    /\ Pending # {}
    /\ Cardinality(Running) < max_workers
    /\ LET n == CHOOSE x \in Pending : \A y \in Pending : x <= y
       IN  futures' = [futures EXCEPT ![n].state = "running"]
    /\ UNCHANGED <<search_pc, search_args, use_old_schema, results, scores, search_result,
                   inserts, search_events, hung, collection, call, bothMigrations, caller>>

SomeRaised == \E n \in 1..Len(futures) : futures[n].out # <<>> /\ futures[n].out[1].raised

\* a task runs rerank_single_doc and completes; lines 247-249 take its result
TaskDone(n, fault) ==
    /\ search_pc = "fanout"
    /\ n \in Running \ hung
    /\ LET out == RerankSingleDoc(futures[n].image_id, search_args.data, collection,
                                  OutputFields(use_old_schema), use_old_schema, fault)
       IN  /\ futures' = [futures EXCEPT ![n].state = "done", ![n].out = <<out>>]
           /\ scores' = IF out.raised \/ SomeRaised THEN scores
                        ELSE Append(scores, <<out.score, out.metadata>>)
           /\ search_events' = search_events
                  \cup (IF fault THEN {"query_fault"} ELSE {})
                  \cup (IF ~out.raised /\ out.doc_colbert_vecs = <<>> THEN {"dangling"} ELSE {})
    /\ UNCHANGED <<search_pc, search_args, use_old_schema, results, search_result,
                   inserts, hung, collection, call, bothMigrations, caller>>

\* mutant: the calling thread goes on as soon as one task has completed
Finish_Early ==
    /\ search_pc = "fanout"
    /\ \E n \in 1..Len(futures) : futures[n].state = "done"
    /\ LET r == Ranking(scores, search_args.topk)
       IN  IF SomeRaised \/ r.status = "raised"
           THEN Fallback
           ELSE /\ search_result' = r
                /\ search_pc' = "done"
                /\ UNCHANGED use_old_schema
    /\ UNCHANGED <<search_args, results, futures, scores, inserts, search_events, hung,
                   collection, call, bothMigrations, caller>>

\* the executor is joined; lines 251-265
Finish ==
    /\ search_pc = "fanout"
    /\ \A n \in 1..Len(futures) : futures[n].state = "done"
    /\ LET r == Ranking(scores, search_args.topk)
       IN  IF SomeRaised \/ r.status = "raised"
           THEN Fallback
           ELSE /\ search_result' = r
                /\ search_pc' = "done"
                /\ UNCHANGED use_old_schema
    /\ UNCHANGED <<search_args, results, futures, scores, inserts, search_events, hung,
                   collection, call, bothMigrations, caller>>

SearchCollections ==
    {NoCollection,
     [exists |-> TRUE, fields |-> LegacyFields \cup NewFields, rows |-> <<>>]}
    \cup {[exists |-> TRUE, fields |-> LegacyFields,
           rows |-> [n \in 1..M |-> RowWithFields(n + 2, LegacyFields)]] : M \in 1..MaxRows}

InitSearch ==
    /\ collection \in SearchCollections
    /\ MigIdle
    /\ call = NoCall
    /\ SearchIdle
    /\ caller = CallerIdle
    /\ other = OtherIdle

NextSearch ==
    \/ \E data \in PageData \cup SegmentData : search_pc = "idle" /\ Insert(data)
    \/ \E file_ids \in SUBSET Range(Files) :
          search_pc = "fanout" /\ DeleteFiles(file_ids) /\ UNCHANGED caller
    \/ \E data \in Queries, topk \in 1..MaxTopK, filters \in SearchFilters :
          Search(data, topk, filters) /\ UNCHANGED caller
    \/ \E fault \in BOOLEAN : Coarse(fault)
    \/ TaskStart
    \/ \E n \in 1..Len(futures), fault \in BOOLEAN : TaskDone(n, fault)
    \/ Finish

SpecSearch == InitSearch /\ [][NextSearch]_vars

----------------------------------------------------------------------------
(* Ingestion: insert_to_milvus and insert_media_to_milvus, rag/utils.py *)

\* the arguments of the insert call for page i (from 0) of a file
PageCall(embeddings, image_ids, file_id, i) ==
    [colqwen_vecs |-> embeddings[i + 1], page_number |-> i,
     image_id |-> image_ids[i + 1], file_id |-> file_id]

\* mutant: the segment id is passed as image_id only
SegmentCall_NoSegmentId(embeddings, segment_ids, file_id, segments, media_type, i) ==
    [colqwen_vecs |-> embeddings[i + 1], page_number |-> i,
     image_id |-> segment_ids[i + 1], file_id |-> file_id,
     media_type |-> media_type,
     timestamp_start |-> Get(segments[i + 1], "start_time", Get(segments[i + 1], "timestamp", 0)),
     timestamp_end |-> Get(segments[i + 1], "end_time", Get(segments[i + 1], "timestamp", 0)),
     duration |-> Get(segments[i + 1], "duration", 0)]

\* the arguments of the insert call for segment i (from 0) of a media file
SegmentCall(embeddings, segment_ids, file_id, segments, media_type, i) ==
    [colqwen_vecs |-> embeddings[i + 1], page_number |-> i,
     image_id |-> segment_ids[i + 1], file_id |-> file_id,
     media_type |-> media_type,
     timestamp_start |-> Get(segments[i + 1], "start_time", Get(segments[i + 1], "timestamp", 0)),
     timestamp_end |-> Get(segments[i + 1], "end_time", Get(segments[i + 1], "timestamp", 0)),
     duration |-> Get(segments[i + 1], "duration", 0),
     segment_id |-> segment_ids[i + 1]]

RECURSIVE InsertAll(_, _)
\* the insert calls of one loop, in order
InsertAll(c, datas) ==
    IF datas = <<>> THEN c
    ELSE InsertAll(StoreInsert(c, InsertRecords(datas[1]), {}).collection, Tail(datas))

IngestUnchanged ==
    UNCHANGED <<search_pc, search_args, use_old_schema, results, futures, scores,
                search_result, search_events, hung, call, bothMigrations, caller>>

\* insert_to_milvus, lines 374-390
InsertToMilvus(embeddings, image_ids, file_id) ==
    /\ inserts + Len(embeddings) <= MaxInserts
    /\ collection.exists
    /\ new_output_fields \subseteq collection.fields
    /\ collection' = InsertAll(collection,
                          [n \in 1..Len(embeddings) |->
                              PageCall(embeddings, image_ids, file_id, n - 1)])
    /\ inserts' = inserts + Len(embeddings)
    /\ IngestUnchanged

\* insert_media_to_milvus, lines 393-426
InsertMediaToMilvus(embeddings, segment_ids, file_id, segments, media_type) ==
    /\ inserts + Len(embeddings) <= MaxInserts
    /\ collection.exists
    /\ new_output_fields \subseteq collection.fields
    /\ collection' = InsertAll(collection,
                          [n \in 1..Min(Len(embeddings), Min(Len(segment_ids), Len(segments))) |->
                              SegmentCall(embeddings, segment_ids, file_id, segments,
                                          media_type, n - 1)])
    /\ inserts' = inserts + Len(embeddings)
    /\ IngestUnchanged

\* sequences of length 1..n over S
SeqUpTo(S, n) == UNION {[1..k -> S] : k \in 1..n}

\* direct calls of insert, with either page number
InsertCalls ==
    {[colqwen_vecs |-> e, page_number |-> p, image_id |-> g, file_id |-> FileOf(g)] :
        e \in Embeddings, p \in {0, 1}, g \in {"g1", "g2"}}

Segments ==
    {[start_time |-> 10, end_time |-> 40, duration |-> 30], [timestamp |-> 5]}

NextIngest ==
    \/ \E data \in InsertCalls : Insert(data)
    \/ \E embeddings \in SeqUpTo(Embeddings, MaxInserts), file_id \in Range(Files) :
          InsertToMilvus(embeddings, [n \in 1..Len(embeddings) |-> Groups[n]], file_id)
    \/ \E embeddings \in SeqUpTo({<<V01>>, <<V10, V11>>}, MaxInserts),
          segments \in SeqUpTo(Segments, MaxInserts) :
          /\ Len(segments) = Len(embeddings)
          /\ InsertMediaToMilvus(embeddings, [n \in 1..Len(embeddings) |-> Groups[n]],
                                 "f2", segments, "audio")

SpecIngest == InitSearch /\ [][NextIngest]_vars

----------------------------------------------------------------------------
(* ChatService.create_chat_stream, rag/llm_service.py: retrieval over one    *)
(* knowledge base, next to a migration of its collection                    *)

\* lines 62-71
NormalTopK(top_K) ==
    IF top_K = -1 THEN 3 ELSE IF top_K < 1 THEN 1 ELSE IF top_K > 30 THEN 30 ELSE top_K

\* lines 73-80
NormalScoreThreshold(score_threshold) ==
    IF score_threshold = -1 THEN 10
    ELSE IF score_threshold < 0 THEN 0
    ELSE IF score_threshold > 20 THEN 20
    ELSE score_threshold

\* mutant: the items are filtered and left in the order they came in
SortAndFilter_Unsorted(data, min_score, max_score) ==
    LET above == IF min_score.none THEN data
                 ELSE SelectSeq(data, LAMBDA item : item.score >= min_score.data)
    IN  IF max_score.none THEN above
        ELSE SelectSeq(above, LAMBDA item : item.score <= max_score.data)

\* rag/utils.py, lines 13-21; min_score and max_score are Optional
SortAndFilter(data, min_score, max_score) ==
    LET above == IF min_score.none THEN data
                 ELSE SelectSeq(data, LAMBDA item : item.score >= min_score.data)
        below == IF max_score.none THEN above
                 ELSE SelectSeq(above, LAMBDA item : item.score <= max_score.data)
        sorted == SortDesc([n \in 1..Len(below) |-> <<below[n].score, below[n]>>])
    IN  [n \in 1..Len(sorted) |-> sorted[n][2]]

collection_name == "colqwen_base"

\* lines 129-136: the scores of the one base, then filter, sort and cut
CutScore(scores_, top_K, score_threshold) ==
    LET result_score == [n \in 1..Len(scores_) |->
                            Put(scores_[n], "collection_name", collection_name)]
        sorted_score == SortAndFilter(result_score, Some(score_threshold), None)
    IN  IF Len(sorted_score) >= top_K THEN Slice(sorted_score, 0, top_K) ELSE sorted_score

\* lines 156-218, for the media types of the model
FileUseInfo(score) ==
    LET media_type == Get(score, "media_type", "image")
        timestamp_start == Get(score, "timestamp_start", 0)
        timestamp_end == Get(score, "timestamp_end", timestamp_start + 30)
    IN  IF media_type \in {"audio", "video_audio"}
        THEN [score |-> score.score, media_type |-> media_type,
              timestamp_start |-> timestamp_start, timestamp_end |-> timestamp_end,
              duration |-> Get(score, "duration", timestamp_end - timestamp_start)]
        ELSE [score |-> score.score, media_type |-> media_type]

\* mutant: every lookup counts as a success
LookupSucceeded_Always(status) == TRUE

\* line 148
LookupSucceeded(status) == status = "success"

CallerOnly == UNCHANGED <<collection, call, bothMigrations, searchVars>>

\* lines 14-80: entry and normalisation of the model configuration
CreateChatStream(top_K, score_threshold) ==
    /\ caller.pc = "idle"
    /\ caller' = [caller EXCEPT !.pc = "check",
                                !.top_K = NormalTopK(top_K),
                                !.score_threshold = NormalScoreThreshold(score_threshold)]
    /\ CallerOnly

\* line 126: check_collection; a base without collection adds no scores
CheckCollection ==
    /\ caller.pc = "check"
    /\ caller' = IF collection.exists
                 THEN [caller EXCEPT !.pc = "search"]
                 ELSE [caller EXCEPT !.pc = "lookup",
                                     !.cut_score = CutScore(<<>>, caller.top_K,
                                                            caller.score_threshold)]
    /\ CallerOnly

\* lines 127-129: the call of search, with topk and no filter
CallSearch(data) ==
    /\ caller.pc = "search"
    /\ Search(data, caller.top_K, [media_type_filter |-> "", time_range_filter |-> <<>>])
    /\ caller' = [caller EXCEPT !.pc = "searching"]

\* lines 127-139: search returns its list or raises; nothing handles the exception
SearchReturns ==
    /\ caller.pc = "searching"
    /\ search_pc = "done"
    /\ caller' = IF search_result.status = "raised"
                 THEN [caller EXCEPT !.pc = "raised", !.error = "search"]
                 ELSE [caller EXCEPT !.pc = "lookup",
                                     !.result_score = search_result.value,
                                     !.cut_score = CutScore(search_result.value, caller.top_K,
                                                            caller.score_threshold)]
    /\ CallerOnly

\* lines 142-220: one round of the loop over cut_score; status is the status of
\* db.get_file_and_media_info
CallerLookup(status) ==
    /\ caller.pc = "lookup"
    /\ caller.i < Len(caller.cut_score)
    /\ LET score == caller.cut_score[caller.i + 1]
           looked == [caller EXCEPT !.i = @ + 1,
                                    !.lookups = Append(@, [file_id |-> score.file_id,
                                                           status |-> status])]
           called == [looked EXCEPT
                        !.deleted = Append(@, [collection_name |-> score.collection_name,
                                               file_ids |-> <<score.file_id>>])]
       IN  IF LookupSucceeded(status)
           THEN /\ caller' = [looked EXCEPT !.file_used = Append(@, FileUseInfo(score))]
                /\ CallerOnly
           ELSE IF collection.exists
           THEN /\ DeleteFiles({score.file_id})
                /\ caller' = called
           ELSE \* client.delete raises on a missing collection
                /\ caller' = [called EXCEPT !.pc = "raised", !.error = "delete_files"]
                /\ CallerOnly

\* the loop is over
CallerDone ==
    /\ caller.pc = "lookup"
    /\ caller.i = Len(caller.cut_score)
    /\ caller' = [caller EXCEPT !.pc = "done"]
    /\ CallerOnly

\* a collection of the old shape, and one of the current shape holding two
\* pages of f1 and f2 and an audio segment of f2
CallerCollections ==
    {NoCollection,
     [exists |-> TRUE, fields |-> LegacyFields,
      rows |-> <<RowWithFields(3, LegacyFields)>>],
     [exists |-> TRUE, fields |-> LegacyFields \cup NewFields,
      rows |-> InsertRecords(PageCall(<<<<V10, V01, V11>>, <<V10>>>>, <<"g1", "g2">>, "f1", 0))
               \o InsertRecords(PageCall(<<<<V10>>>>, <<"g2">>, "f2", 0))
               \o InsertRecords(SegmentCall(<<<<V01>>>>, <<"g3">>, "f2",
                                            <<[start_time |-> 10, end_time |-> 40,
                                               duration |-> 30]>>, "audio", 0))]}

InitCaller ==
    /\ collection \in CallerCollections
    /\ MigIdle
    /\ call = NoCall
    /\ SearchIdle
    /\ caller = CallerIdle
    /\ other = OtherIdle

TopKs == {-1, 0, 2, 31}

ScoreThresholds == {-1, -2, 1, 21}

NextCaller ==
    \/ \E top_K \in TopKs, score_threshold \in ScoreThresholds :
          CreateChatStream(top_K, score_threshold)
    \/ CheckCollection
    \/ \E data \in Queries : CallSearch(data)
    \/ \E fault \in BOOLEAN : Coarse(fault)
    \/ TaskStart
    \/ \E n \in 1..Len(futures), fault \in BOOLEAN : TaskDone(n, fault)
    \/ Finish
    \/ SearchReturns
    \/ \E status \in {"success", "failed"} : CallerLookup(status)
    \/ CallerDone
    \/ Invoke(FALSE)
    \/ BackupPage(FALSE)
    \/ DropExisting(FALSE)
    \/ CreateNew({})
    \/ RestoreBatch(FALSE)
    \/ Validate(FALSE)

SpecCaller == InitCaller /\ [][NextCaller]_vars

----------------------------------------------------------------------------
(* create_chat_stream over several knowledge bases.  Every base has its own  *)
(* collection; what check_collection and search gave for a base is an input. *)
(* Every catalog lookup succeeds here; failed lookups are in SpecCaller.      *)

MaxBases == 2

MaxHits == 2

\* line 125: the collection of the k-th base
BaseName(k) == <<"colqwen", k>>

HitScores == {5, 10, 15}

\* an entry of the list search returns
Hit(n, score) ==
    [score |-> score, image_id |-> Groups[n], file_id |-> FileOf(Groups[n]),
     page_number |-> 0, media_type |-> "image", timestamp_start |-> 0,
     timestamp_end |-> 0, duration |-> 0, segment_id |-> ""]

\* lines 126-129 for one base: no collection, search raised, or the list search
\* returned, at most topk entries in descending score order
BaseOutcomes(topk) ==
    {[status |-> "missing", value |-> <<>>], [status |-> "raised", value |-> <<>>],
     [status |-> "returned", value |-> <<>>]}
    \cup {[status |-> "returned", value |-> [n \in 1..Len(ss) |-> Hit(n, ss[n])]] :
            ss \in {t \in SeqUpTo(HitScores, Min(topk, MaxHits)) :
                       \A n \in 1..(Len(t) - 1) : t[n] >= t[n + 1]}}

\* lines 124-132: result_score after the loop over the bases, from base k on
RECURSIVE ResultScore(_, _)
ResultScore(per_base, k) ==
    IF k > Len(per_base) THEN <<>>
    ELSE [n \in 1..Len(per_base[k].value) |->
             Put(per_base[k].value[n], "collection_name", BaseName(k))]
         \o ResultScore(per_base, k + 1)

\* lines 133-137
CutSorted(result_score, top_K, score_threshold) ==
    LET sorted_score == SortAndFilter(result_score, Some(score_threshold), None)
    IN  IF Len(sorted_score) >= top_K THEN Slice(sorted_score, 0, top_K) ELSE sorted_score

\* lines 121-137: the loop over the bases, then filter, sort and cut; an
\* exception of search is not handled
RetrieveBases(per_base) ==
    /\ caller.pc = "check"
    /\ LET result_score == ResultScore(per_base, 1)
       IN  caller' =
             IF \E k \in 1..Len(per_base) : per_base[k].status = "raised"
             THEN [caller EXCEPT !.pc = "raised", !.error = "search"]
             ELSE [caller EXCEPT !.pc = "lookup",
                                 !.result_score = result_score,
                                 !.cut_score = CutSorted(result_score, caller.top_K,
                                                         caller.score_threshold)]
    /\ CallerOnly

InitBases ==
    /\ collection = [exists |-> TRUE, fields |-> LegacyFields \cup NewFields, rows |-> <<>>]
    /\ MigIdle
    /\ call = NoCall
    /\ SearchIdle
    /\ caller = CallerIdle
    /\ other = OtherIdle

NextBases ==
    \/ \E top_K \in TopKs, score_threshold \in ScoreThresholds :
          CreateChatStream(top_K, score_threshold)
    \/ \E per_base \in SeqUpTo(BaseOutcomes(caller.top_K), MaxBases) : RetrieveBases(per_base)
    \/ CallerLookup("success")
    \/ CallerDone

SpecBases == InitBases /\ [][NextBases]_vars

----------------------------------------------------------------------------
(* The fan-out when the store stops answering one client.query.  The query  *)
(* is called without timeout (lines 197-202), as_completed and              *)
(* future.result() wait without timeout (lines 247-248), and leaving the    *)
(* with block joins every worker.                                           *)

\* the store never answers the query of the running task n
Hang(n) ==
    /\ search_pc = "fanout"
    /\ hung = {}
    /\ n \in Running
    /\ hung' = {n}
    /\ UNCHANGED <<search_pc, search_args, use_old_schema, results, futures, scores,
                   search_result, inserts, search_events, collection, call, bothMigrations, caller>>

InitSlow ==
    /\ collection \in {c \in CallerCollections : c.exists}
    /\ MigIdle
    /\ call = NoCall
    /\ SearchIdle
    /\ caller = CallerIdle
    /\ other = OtherIdle

NextSlow ==
    \/ \E data \in Queries, topk \in 1..MaxTopK, filters \in SearchFilters :
          Search(data, topk, filters) /\ UNCHANGED caller
    \/ \E fault \in BOOLEAN : Coarse(fault)
    \/ TaskStart
    \/ \E n \in 1..Len(futures), fault \in BOOLEAN : TaskDone(n, fault)
    \/ \E n \in 1..Len(futures) : Hang(n)
    \/ Finish

\* what the threads of a search in its fan-out can do: a worker takes a task,
\* a task completes, the calling thread leaves the with block
FanoutStep ==
    \/ TaskStart
    \/ \E n \in 1..Len(futures), fault \in BOOLEAN : TaskDone(n, fault)
    \/ Finish

SpecSlow == InitSlow /\ [][NextSlow]_vars

----------------------------------------------------------------------------
(* The fan-out over more candidate groups than the executor has workers.    *)
(* client.search returns at most coarse_limit hits per query vector, so the *)
(* query has a vector per block of coarse_limit groups.                     *)

MaxGroups == 302

PoolDim == (MaxGroups + coarse_limit - 1) \div coarse_limit

Unit(j) == [d \in 1..PoolDim |-> IF d = j THEN 1 ELSE 0]

\* one single-vector page per group, the groups spread over the directions
PoolRow(k) ==
    [vector |-> Unit((k % PoolDim) + 1), image_id |-> ToString(k), page_number |-> 0,
     file_id |-> "f1", media_type |-> "image", timestamp_start |-> 0,
     timestamp_end |-> 0, duration |-> 0, segment_id |-> ""]

PoolQuery == [j \in 1..PoolDim |-> Unit(j)]

InitPool ==
    /\ collection = [exists |-> TRUE, fields |-> LegacyFields \cup NewFields,
                     rows |-> [k \in 1..MaxGroups |-> PoolRow(k)]]
    /\ MigIdle
    /\ call = NoCall
    /\ SearchIdle
    /\ caller = CallerIdle
    /\ other = OtherIdle

\* the schedule in which the fetches are slow: a task completes only when no
\* worker is free to take a queued one, and the tasks complete in the order in
\* which they were started
NextPool ==
    \/ \E topk \in 1..MaxTopK :
          /\ search_pc = "idle"
          /\ Search(PoolQuery, topk, [media_type_filter |-> "", time_range_filter |-> <<>>])
          /\ UNCHANGED caller
    \/ Coarse(FALSE)
    \/ TaskStart
    \/ /\ Running # {}
       /\ Pending = {} \/ Cardinality(Running) >= max_workers
       /\ TaskDone(CHOOSE n \in Running : \A m \in Running : n <= m, FALSE)
    \/ Finish

SpecPool == InitPool /\ [][NextPool]_vars

----------------------------------------------------------------------------
(* insert called while searches run, with a store that may refuse the call. *)
(* Each image_id is always inserted with the same embeddings, so the calls  *)
(* behind the rows of the collection can be read off the rows.              *)

\* the embeddings of a page with one vector more than a group fetch returns
LongEmbeddings == [n \in 1..(fetch_limit + 1) |-> <<(n % 3) - 1, ((n \div 3) % 3) - 1>>]

\* insert_to_milvus, lines 379-386: the page g1 of f1 and the long page g2 of f2
AtomicData ==
    {[colqwen_vecs |-> <<V10, V01, V11>>, page_number |-> 0, image_id |-> "g1",
      file_id |-> FileOf("g1")],
     [colqwen_vecs |-> LongEmbeddings, page_number |-> 1, image_id |-> "g2",
      file_id |-> FileOf("g2")]}

\* mutant: one client.insert per vector, the failure met at the second
InsertCall_PerVector(data, fault) ==
    /\ inserts < MaxInserts
    /\ LET records == InsertRecords(data)
           r == StoreInsert(collection, IF fault THEN SubSeq(records, 1, 1) ELSE records, {})
       IN  /\ collection' = r.collection
           /\ call' = [op |-> "insert", migrate_existing |-> FALSE,
                       raised |-> r.raised \/ fault]
    /\ inserts' = inserts + 1
    /\ UNCHANGED <<search_pc, search_args, use_old_schema, results, futures, scores,
                   search_result, search_events, hung, bothMigrations, caller>>

\* MilvusManager.insert, lines 267-296: the records are built and handed to
\* the store in one client.insert; its exception leaves insert
InsertCall(data, fault) ==
    /\ inserts < MaxInserts
    /\ LET r == StoreInsert(collection, InsertRecords(data),
                            IF fault THEN {"insert"} ELSE {})
       IN  /\ collection' = r.collection
           /\ call' = [op |-> "insert", migrate_existing |-> FALSE, raised |-> r.raised]
    /\ inserts' = inserts + 1
    /\ UNCHANGED <<search_pc, search_args, use_old_schema, results, futures, scores,
                   search_result, search_events, hung, bothMigrations, caller>>

AtomicQueries == {<<V10>>, <<V10, V01>>}

InitAtomic ==
    /\ collection \in {NoCollection,
                       [exists |-> TRUE, fields |-> LegacyFields \cup NewFields, rows |-> <<>>]}
    /\ MigIdle
    /\ call = NoCall
    /\ SearchIdle
    /\ caller = CallerIdle
    /\ other = OtherIdle

NextAtomic ==
    \/ \E data \in AtomicData, fault \in BOOLEAN : InsertCall(data, fault)
    \/ \E data \in AtomicQueries, topk \in 1..MaxTopK :
          /\ search_pc = "idle"
          /\ Search(data, topk, [media_type_filter |-> "", time_range_filter |-> <<>>])
          /\ UNCHANGED caller
    \/ Coarse(FALSE)
    \/ TaskStart
    \/ \E n \in 1..Len(futures) : TaskDone(n, FALSE)
    \/ Finish

SpecAtomic == InitAtomic /\ [][NextAtomic]_vars

----------------------------------------------------------------------------
(* Searches of a store nobody writes to: the coarse search, the fan-out of  *)
(* the group fetches and the ranking, under every order of completion.      *)

RankQueries == Queries \cup {<<V10>>}

\* the filters of SearchFilters and one no stored row satisfies
RankFilters ==
    SearchFilters \cup {[media_type_filter |-> "video_frame", time_range_filter |-> <<>>]}

InitRank ==
    /\ collection \in {c \in CallerCollections : c.exists}
                      \cup {[exists |-> TRUE, fields |-> LegacyFields \cup NewFields,
                             rows |-> <<>>]}
    /\ MigIdle
    /\ call = NoCall
    /\ SearchIdle
    /\ caller = CallerIdle
    /\ other = OtherIdle

NextRank ==
    \/ \E data \in RankQueries, topk \in 1..MaxTopK, filters \in RankFilters :
          Search(data, topk, filters) /\ UNCHANGED caller
    \/ \E fault \in BOOLEAN : Coarse(fault)
    \/ TaskStart
    \/ \E n \in 1..Len(futures), fault \in BOOLEAN : TaskDone(n, fault)
    \/ Finish

SpecRank == InitRank /\ [][NextRank]_vars

----------------------------------------------------------------------------
(* Ingestion next to the two ways of recreating a collection: the migration *)
(* manager, step by step, and create_collection with migrate_existing.      *)

\* insert_media_to_milvus is called for these media types (lines 403, 234)
IngestMediaTypes == {"audio", "video_frame"}

NextSegment ==
    \/ \E embeddings \in SeqUpTo({<<V10, V01>>}, MaxInserts) :
          InsertToMilvus(embeddings, [n \in 1..Len(embeddings) |-> Groups[n]], "f1")
    \/ \E embeddings \in SeqUpTo({<<V01>>}, MaxInserts),
          segments \in SeqUpTo(Segments, MaxInserts), media_type \in IngestMediaTypes :
          /\ Len(segments) = Len(embeddings)
          /\ InsertMediaToMilvus(embeddings, [n \in 1..Len(embeddings) |-> Groups[4 - n]],
                                 "f2", segments, media_type)
    \/ Invoke(FALSE)
    \/ BackupPage(FALSE)
    \/ DropExisting(FALSE)
    \/ CreateNew({})
    \/ \E raises \in BOOLEAN : RestoreBatch(raises)
    \/ Validate(FALSE)
    \/ pc \in {"idle", "done"} /\ CreateCollectionCall(TRUE, {})

SpecSegment == InitSearch /\ [][NextSegment]_vars

----------------------------------------------------------------------------
(* insert calls next to a running migration.  Whether client.insert takes   *)
(* records with the media fields into a collection created without them    *)
(* depends on the dynamic-field setting that collection was created with,   *)
(* which the code does not determine: both answers of the store are taken.  *)

\* the page inserted by the k-th insert call
ConcurrentData(k) ==
    [colqwen_vecs |-> <<V10>>, page_number |-> 0, image_id |-> Groups[k], file_id |-> "f1"]

\* the records of the insert calls that returned without exception, in order
Inserted == Get(call, "inserted", <<>>)

\* MilvusManager.insert, lines 267-296, called while a migration may be
\* running; accepted is the store's answer for an old-shape collection
InsertDuring(data, accepted) ==
    /\ inserts < MaxInserts
    /\ LET fits == new_output_fields \subseteq collection.fields
           r == StoreInsert(collection, InsertRecords(data),
                            IF fits \/ accepted THEN {} ELSE {"insert"})
       IN  /\ collection' = r.collection
           /\ call' = [op |-> "insert", migrate_existing |-> FALSE, raised |-> r.raised,
                       inserted |-> IF r.raised THEN Inserted
                                    ELSE Inserted \o InsertRecords(data)]
    /\ inserts' = inserts + 1
    /\ UNCHANGED <<search_pc, search_args, use_old_schema, results, futures, scores,
                   search_result, search_events, hung, bothMigrations, caller>>

InitConcurrent ==
    /\ collection \in {c \in SearchCollections : c.exists}
    /\ MigIdle
    /\ call = NoCall
    /\ SearchIdle
    /\ caller = CallerIdle
    /\ other = OtherIdle

NextConcurrent ==
    \/ \E accepted \in BOOLEAN : InsertDuring(ConcurrentData(inserts + 1), accepted)
    \/ Invoke(FALSE)
    \/ BackupPage(FALSE)
    \/ DropExisting(FALSE)
    \/ CreateNew({})
    \/ RestoreBatch(FALSE)
    \/ Validate(FALSE)

SpecConcurrent == InitConcurrent /\ [][NextConcurrent]_vars

----------------------------------------------------------------------------
(* Two invocations of perform_safe_migration on one collection: the store is *)
(* shared, the locals belong to the invocation.  The running invocation's    *)
(* locals are the migration variables, the waiting one's are in other.       *)

Locals ==
    [pc |-> pc, compatibility |-> compatibility, all_data |-> all_data, offset |-> offset,
     backup_data |-> backup_data, migrated_count |-> migrated_count, restore_i |-> restore_i,
     migration_result |-> migration_result, pre |-> pre, trace |-> trace,
     faults |-> faults, runs |-> runs]

\* the other invocation gets to run between two store calls
Switch ==
    /\ other.pc # "done"
    /\ other' = Locals
    /\ pc' = other.pc
    /\ compatibility' = other.compatibility
    /\ all_data' = other.all_data
    /\ offset' = other.offset
    /\ backup_data' = other.backup_data
    /\ migrated_count' = other.migrated_count
    /\ restore_i' = other.restore_i
    /\ migration_result' = other.migration_result
    /\ pre' = other.pre
    /\ trace' = other.trace
    /\ faults' = other.faults
    /\ runs' = other.runs
    /\ UNCHANGED <<collection, call, searchVars, caller>>

LegacyCollections ==
    {[exists |-> TRUE, fields |-> LegacyFields,
      rows |-> [n \in 1..M |-> RowWithFields(n - 1, LegacyFields)]] : M \in 0..MaxRows}

InitTwo ==
    /\ collection \in LegacyCollections
    /\ MigIdle
    /\ call = NoCall
    /\ SearchIdle
    /\ caller = CallerIdle
    /\ other = OtherIdle

\* each invocation runs once and no store call fails
NextTwo ==
    \/ runs = 0 /\ Invoke(FALSE)
    \/ BackupPage(FALSE)
    \/ DropExisting(FALSE)
    \/ CreateNew({})
    \/ RestoreBatch(FALSE)
    \/ Validate(FALSE)
    \/ Switch

SpecTwo == InitTwo /\ [][NextTwo]_vars

----------------------------------------------------------------------------
(* Properties of the migration manager *)

Done == pc = "done"

LegacyPart(record) == [k \in LegacyFields |-> record[k]]

\* C1: once a backup page read has failed, the old collection is not dropped
\* and its rows are unchanged
C1_BackupFailureNeverDrops ==
    "backup" \in faults => collection = pre

\* C2: with no store failure, migrating a collection of M legacy rows and
\* validating reports M rows, and the n-th row keeps its vector, image_id,
\* file_id and page_number
C2_MigrationPreservesRows ==
    (Done /\ faults = {} /\ compatibility.needs_migration) =>
        /\ migration_result.success
        /\ "validation" \in DOMAIN migration_result
        /\ migration_result.validation.success
        /\ migration_result.validation.record_count = Len(pre.rows)
        /\ collection.exists
        /\ Len(collection.rows) = Len(pre.rows)
        /\ \A n \in 1..Len(pre.rows) : LegacyPart(collection.rows[n]) = LegacyPart(pre.rows[n])

C2_Witness ==
    /\ Done /\ faults = {} /\ compatibility.needs_migration
    /\ Len(pre.rows) > backup_batch_size
    /\ Len(collection.rows) = Len(pre.rows)

\* C3: a failed backup makes the outcome of safe_migrate_collection a failure
C3_BackupFailureIsFatal ==
    (Done /\ "backup" \in faults) => ~migration_result.success

\* C4: when the row count after the migration differs from the row count
\* before it, the migration is reported as failed by the validation
C4_CountMismatchReported ==
    (Done /\ Len(collection.rows) # Len(pre.rows)) =>
        \/ ~migration_result.success
        \/ /\ "validation" \in DOMAIN migration_result
           /\ ~migration_result.validation.success

\* C5: a run on a collection that has every expected field performs no store
\* call other than the check and the validation, leaves the collection as it
\* was and reports success with no migration needed
C5_CompatibleIsNoOp ==
    (Done /\ pre.exists /\ NewFields \subseteq pre.fields) =>
        /\ trace = <<>>
        /\ faults \subseteq {"check", "validate"}
        /\ collection = pre
        /\ migration_result.success
        /\ ~migration_result.backup_created
        /\ ~migration_result.data_migrated
        /\ ~compatibility.needs_migration
        /\ "check" \notin faults =>
              migration_result.message = "Collection is compatible with new schema"

C5_Witness ==
    /\ Done /\ runs = 2 /\ pre.exists /\ NewFields \subseteq pre.fields
    /\ pre.rows # <<>>
    /\ "check" \notin faults
    /\ migration_result.message = "Collection is compatible with new schema"

\* C6: when the collection did not exist and migrate reports success, the
\* collection exists with the expected fields and no rows
C6_MissingCollectionCreatedFresh ==
    (Done /\ ~pre.exists /\ migration_result.success) =>
        /\ collection.exists
        /\ collection.fields = LegacyFields \cup NewFields
        /\ collection.rows = <<>>

\* C7: create_collection with migrate_existing on an existing collection either
\* raises or leaves every previous row in the recreated collection, legacy
\* fields unchanged and new fields defaulted
C7_CreateNeverLosesSilently ==
    (call.op = "create_collection" /\ call.migrate_existing /\ pre.exists) =>
        \/ call.raised
        \/ /\ collection.exists
           /\ collection.rows = MigratedBatch(pre.rows)

----------------------------------------------------------------------------
(* Properties of search *)

Returned == search_result.status = "returned"

\* the maximum inner product of q against any of the vectors
MaxSim(q, vecs) ==
    CHOOSE m \in {InnerProduct(q, vecs[n]) : n \in 1..Len(vecs)} :
        \A n \in 1..Len(vecs) : InnerProduct(q, vecs[n]) <= m

RECURSIVE SumOver(_, _)
SumOver(S, f) ==
    IF S = {} THEN 0 ELSE LET x == CHOOSE y \in S : TRUE IN f[x] + SumOver(S \ {x}, f)

\* the late-interaction similarity of the query vectors and a group's vectors
LateInteraction(data, vecs) ==
    SumOver(1..Len(data), [i \in 1..Len(data) |-> MaxSim(data[i], vecs)])

Vectors(records) == [n \in 1..Len(records) |-> records[n].vector]

Completed == {n \in 1..Len(futures) : futures[n].out # <<>> /\ ~futures[n].out[1].raised}

\* the distinct image_ids among the coarse hits
Candidates == {Flatten(results)[n].entity.image_id : n \in 1..Len(Flatten(results))}

TaskOf(image_id) == CHOOSE n \in 1..Len(futures) : futures[n].image_id = image_id

\* C8: the score of every group with at least one fetched vector, as computed
\* by its task and as returned by search, is the sum over the query vectors of
\* the maximum inner product against the group's fetched vectors
C8_ScoreIsLateInteraction ==
    /\ \A n \in Completed :
          futures[n].out[1].doc_colbert_vecs # <<>> =>
             futures[n].out[1].score =
                LateInteraction(search_args.data, Vectors(futures[n].out[1].doc_colbert_vecs))
    /\ Returned =>
          \A k \in 1..Len(search_result.value) :
             LET e == search_result.value[k]
             IN  /\ \E n \in Completed : futures[n].image_id = e.image_id
                 /\ LET fetched == futures[TaskOf(e.image_id)].out[1].doc_colbert_vecs
                    IN  fetched # <<>> =>
                           e.score = LateInteraction(search_args.data, Vectors(fetched))

C8_Witness ==
    /\ Returned
    /\ Len(search_args.data) = 2
    /\ \E k \in 1..Len(search_result.value) :
          /\ search_result.value[k].image_id = "g1"
          /\ search_result.value[k].score = 2
          /\ Len(futures[TaskOf("g1")].out[1].doc_colbert_vecs) = 3

\* the scenario of the specification: g1 fetched with [1,0],[0,1],[1,1], g2 with
\* [1,0], query [[1,0],[0,1]], topk 2
Scenario ==
    /\ Returned
    /\ search_args.data = <<V10, V01>>
    /\ search_args.topk = 2
    /\ Candidates = {"g1", "g2"}
    /\ Vectors(futures[TaskOf("g1")].out[1].doc_colbert_vecs) = <<V10, V01, V11>>
    /\ Vectors(futures[TaskOf("g2")].out[1].doc_colbert_vecs) = <<V10>>

\* C9: what search returns is sorted by score descending and holds
\* min(topk, number of candidate groups) entries, no omitted candidate scores
\* strictly higher than a returned one, and in the scenario g1 (2) precedes g2 (1)
C9_SortedAndCut ==
    Returned =>
        LET value == search_result.value
            kept == {value[k].image_id : k \in 1..Len(value)}
        IN  /\ Len(value) = Min(search_args.topk, Cardinality(Candidates))
            /\ \A i, j \in 1..Len(value) : i < j => value[i].score >= value[j].score
            /\ \A g \in Candidates \ kept : \A k \in 1..Len(value) :
                  futures[TaskOf(g)].out[1].score <= value[k].score
            /\ Scenario =>
                  /\ value[1].image_id = "g1" /\ value[1].score = 2
                  /\ value[2].image_id = "g2" /\ value[2].score = 1

C9_Witness ==
    /\ Scenario
    /\ search_result.value[1].image_id = "g1"
    /\ search_result.value[2].image_id = "g2"

\* C10: one task per distinct image_id of the coarse hits, each scored at most
\* once, and no image_id twice in what search returns
C10_GroupsDeduplicated ==
    /\ search_pc \in {"fanout", "done"} =>
          {futures[n].image_id : n \in 1..Len(futures)} = Candidates
    /\ \A i, j \in 1..Len(futures) : i # j => futures[i].image_id # futures[j].image_id
    /\ \A i, j \in 1..Len(scores) : i # j => scores[i][2].image_id # scores[j][2].image_id
    /\ Returned =>
          \A i, j \in 1..Len(search_result.value) :
             i # j => search_result.value[i].image_id # search_result.value[j].image_id

\* a group hit by both query vectors and through several of its vectors
C10_Witness ==
    /\ Returned
    /\ Len(results) = 2
    /\ Cardinality({n \in 1..Len(results[1]) : results[1][n].entity.image_id = "g1"}) >= 2
    /\ \E n \in 1..Len(results[2]) : results[2][n].entity.image_id = "g1"
    /\ Cardinality({k \in 1..Len(search_result.value) :
                      search_result.value[k].image_id = "g1"}) = 1

----------------------------------------------------------------------------
(* Failures during a search *)

\* C11: a search in which a candidate group was fetched with zero vectors, and
\* in which no store call failed, completes and returns a list to the caller
C11_DanglingGroupStillReturns ==
    (search_pc = "done" /\ search_events = {"dangling"}) => Returned

\* C12: a task whose fetch raised contributes a zero score for its group; the
\* tasks completing after it are still scored, and a search whose only failed
\* store calls were group fetches returns a ranking
C12_FetchFailureAbsorbed ==
    /\ \A n \in 1..Len(futures) :
          futures[n].state = "done" =>
             \E k \in 1..Len(scores) :
                /\ scores[k][2].image_id = futures[n].image_id
                /\ futures[n].out[1].raised => scores[k][1] = 0
    /\ (search_pc = "done" /\ search_events = {"query_fault"}) => Returned

\* C15: every entry of what search returns satisfies the media_type filter and
\* the time range filter the search was called with
C15_FilterCorrectness ==
    Returned =>
        \A k \in 1..Len(search_result.value) : Matches(search_result.value[k], search_args)

\* the rows of a group now in the store
StoredRows(image_id) == SelectSeq(collection.rows, LAMBDA record : record.image_id = image_id)

\* C16: every entry of what search returns carries, for each optional field,
\* the value stored in a row of its group, or the default when the row has none
C16_OptionalFieldsMaterialized ==
    Returned =>
        \A k \in 1..Len(search_result.value) :
            LET entry == search_result.value[k]
                rows == StoredRows(entry.image_id)
            IN  rows # <<>> =>
                   \E n \in 1..Len(rows) :
                      /\ entry.media_type = Get(rows[n], "media_type", "image")
                      /\ entry.timestamp_start = Get(rows[n], "timestamp_start", 0)
                      /\ entry.timestamp_end = Get(rows[n], "timestamp_end", 0)
                      /\ entry.duration = Get(rows[n], "duration", 0)
                      /\ entry.segment_id = Get(rows[n], "segment_id", "")

----------------------------------------------------------------------------
(* delete_files *)

\* C18: a step of delete_files(S) leaves no row whose file_id is in S, leaves
\* the rows whose file_id is not in S as they were and in their order, and
\* changes nothing when S is empty
C18_DeleteFilesRemovesExactly ==
    [][\A S \in SUBSET Range(Files) :
          DeleteFiles(S) =>
             /\ \A n \in 1..Len(collection'.rows) : collection'.rows[n].file_id \notin S
             /\ SelectSeq(collection'.rows, LAMBDA record : record.file_id \notin S)
                   = SelectSeq(collection.rows, LAMBDA record : record.file_id \notin S)
             /\ collection'.exists /\ collection'.fields = collection.fields
             /\ S = {} => collection' = collection]_vars

\* both files had a candidate group when the coarse search ran, and now the
\* rows of f2 are gone and the rows of f1 are all there
C18_Witness ==
    /\ search_pc = "fanout"
    /\ Candidates = {"g1", "g2"}
    /\ collection.rows # <<>>
    /\ \A n \in 1..Len(collection.rows) : collection.rows[n].file_id = "f1"
    /\ Len(StoredRows("g1")) = 3

----------------------------------------------------------------------------
(* insert *)

\* the rows a step appends to the store
Appended == SubSeq(collection'.rows, Len(collection.rows) + 1, Len(collection'.rows))

\* one row per vector of the call, in order, with the call's image_id and file_id
OnePerVector(data, new) ==
    /\ Len(new) = Len(data.colqwen_vecs)
    /\ \A i \in 1..Len(new) :
          /\ new[i].vector = data.colqwen_vecs[i]
          /\ new[i].image_id = data.image_id
          /\ new[i].file_id = data.file_id

\* C20 as stated: a step of insert appends one row per vector, with the call's
\* image_id and file_id, and the row of the i-th vector has page_number equal
\* to its position i (counted from 0 or from 1), unique within the call
C20_SequenceIndexIsPosition ==
    [][\A data \in InsertCalls :
          Insert(data) =>
             /\ collection'.rows = collection.rows \o Appended
             /\ OnePerVector(data, Appended)
             /\ \E base \in {0, 1} :
                   \A i \in 1..Len(Appended) : Appended[i].page_number = i - 1 + base]_vars

\* C20 as amended: a step of insert appends one row per vector, in order, with
\* the call's image_id and file_id, and every row has the page_number the call
\* was given; insert_to_milvus gives the i-th page of a file page_number i
C20_PageNumberIsTheCalls ==
    [][/\ \A data \in InsertCalls :
             Insert(data) =>
                /\ collection'.rows = collection.rows \o Appended
                /\ OnePerVector(data, Appended)
                /\ \A i \in 1..Len(Appended) : Appended[i].page_number = data.page_number
       /\ \A embeddings \in SeqUpTo(Embeddings, MaxInserts), file_id \in Range(Files) :
             InsertToMilvus(embeddings, [n \in 1..Len(embeddings) |-> Groups[n]], file_id) =>
                /\ collection'.rows = collection.rows \o Appended
                /\ \A k \in 1..Len(Appended) :
                      \E n \in 1..Len(embeddings) :
                         /\ Appended[k].image_id = Groups[n]
                         /\ Appended[k].page_number = n - 1
                         /\ Appended[k].file_id = file_id]_vars

\* a group of three vectors, all stored with page number 1
C20_Witness ==
    /\ Len(StoredRows("g2")) = 3
    /\ \A n \in 1..3 : StoredRows("g2")[n].page_number = 1
    /\ Vectors(StoredRows("g2")) = <<V10, V01, V11>>

----------------------------------------------------------------------------
(* create_chat_stream *)

\* C17: create_chat_stream does not fail in search when no store call of the
\* search was made to fail and no group was dangling, that is, when all that
\* can have raised is the absence of the collection
C17_MissingCollectionNeverCrashes ==
    ~(caller.pc = "raised" /\ caller.error = "search" /\ search_events = {})

\* the rounds of the lookup loop with the given outcome, in order
Rounds(success) ==
    SelectSeq([n \in 1..Len(caller.lookups) |-> n],
              LAMBDA n : (caller.lookups[n].status = "success") = success)

\* C19: the results whose lookup succeeded, and only they, are in file_used,
\* in order; delete_files was called once for each result whose lookup failed,
\* with its collection and its file_id, and for no other
C19_SelfHealing ==
    /\ Len(caller.lookups) = caller.i
    /\ \A n \in 1..Len(caller.lookups) :
          caller.lookups[n].file_id = caller.cut_score[n].file_id
    /\ Len(caller.file_used) = Len(Rounds(TRUE))
    /\ \A k \in 1..Len(Rounds(TRUE)) :
          /\ caller.file_used[k].score = caller.cut_score[Rounds(TRUE)[k]].score
          /\ caller.file_used[k].media_type = caller.cut_score[Rounds(TRUE)[k]].media_type
    /\ Len(caller.deleted) = Len(Rounds(FALSE))
    /\ \A k \in 1..Len(Rounds(FALSE)) :
          /\ caller.deleted[k].collection_name = collection_name
          /\ caller.deleted[k].file_ids = <<caller.cut_score[Rounds(FALSE)[k]].file_id>>
    /\ caller.pc = "done" => caller.i = Len(caller.cut_score)

\* two results; the lookup of the first failed and its file has no rows left,
\* the second is the output
C19_Witness ==
    /\ caller.pc = "done"
    /\ Len(caller.cut_score) = 2
    /\ caller.lookups = <<[file_id |-> "f1", status |-> "failed"],
                          [file_id |-> "f2", status |-> "success"]>>
    /\ Len(caller.file_used) = 1
    /\ caller.file_used[1].score = caller.cut_score[2].score
    /\ caller.deleted = <<[collection_name |-> collection_name, file_ids |-> <<"f1">>]>>
    /\ collection.exists
    /\ \A n \in 1..Len(collection.rows) : collection.rows[n].file_id # "f1"

----------------------------------------------------------------------------
(* A slow group *)

\* C14: when the fetch of one group does not complete and every other task
\* is done, the search is not blocked: it has a step by which it goes on
C14_SlowGroupNeverBlocks ==
    (search_pc = "fanout" /\ hung # {} /\ Pending = {} /\ Running = hung) => ENABLED FanoutStep

----------------------------------------------------------------------------
(* The worker pool *)

\* C13: at no instant are more than max_workers group fetches in flight
C13_FetchesBoundedByPool ==
    Cardinality(Running) <= max_workers

\* every worker is busy and tasks are waiting
C13_Witness ==
    /\ Len(futures) > max_workers
    /\ Cardinality(Running) = max_workers
    /\ Pending # {}

----------------------------------------------------------------------------
(* Properties of insert *)

\* rows made of the records of whole calls of insert, one call after another
RECURSIVE WholeCalls(_)
WholeCalls(rows) ==
    \/ rows = <<>>
    \/ \E data \in AtomicData :
          LET n == Len(data.colqwen_vecs)
          IN  /\ Len(rows) >= n
              /\ SubSeq(rows, 1, n) = InsertRecords(data)
              /\ WholeCalls(SubSeq(rows, n + 1, Len(rows)))

\* the embeddings every call of insert for image_id carries
EmbeddingsOf(image_id) ==
    (CHOOSE data \in AtomicData : data.image_id = image_id).colqwen_vecs

RECURSIVE Copies(_, _)
Copies(s, k) == IF k = 0 THEN <<>> ELSE s \o Copies(s, k - 1)

\* the numbers of rows the calls made so far can have left in the store
RowTotals ==
    {a * Len(EmbeddingsOf("g1")) + b * Len(EmbeddingsOf("g2")) :
        a \in 0..inserts, b \in 0..inserts}

\* C21: the store holds the records of whole calls of insert only, at every
\* moment at which a coarse search or a group fetch reads it; what a coarse
\* search and a group fetch took from it is a number of whole calls, up to
\* the limit of the read; a call of insert that fails leaves the store as it
\* was, and one that succeeds adds all its records at once
C21_InsertIsAllOrNothing ==
    /\ [](/\ WholeCalls(collection.rows)
          /\ \A i \in 1..Len(results) :
                Len(results[i]) \in {Min(coarse_limit, t) : t \in RowTotals}
          /\ \A n \in Completed :
                \E k \in 1..inserts :
                   Vectors(futures[n].out[1].doc_colbert_vecs) =
                      Slice(Copies(EmbeddingsOf(futures[n].image_id), k), 0, fetch_limit))
    /\ [][\A data \in AtomicData, fault \in BOOLEAN :
             InsertCall(data, fault) =>
                IF call'.raised
                THEN collection' = collection
                ELSE collection'.rows = collection.rows \o InsertRecords(data)]_vars

\* a call of insert failed while a search was in its fan-out, after another
\* call had succeeded and a task had fetched its group
C21_Witness ==
    /\ call.op = "insert"
    /\ call.raised
    /\ collection.exists
    /\ collection.rows # <<>>
    /\ search_pc = "fanout"
    /\ Completed # {}

\* C22: a group fetch of an image_id inserted by one call returns as many
\* records as the call had vectors, with the call's vectors and its file_id
C22_RoundTrip ==
    \A n \in Completed :
       LET G == futures[n].image_id
           fetched == futures[n].out[1].doc_colbert_vecs
       IN  Len(StoredRows(G)) = Len(EmbeddingsOf(G)) =>
              /\ Len(fetched) = Len(EmbeddingsOf(G))
              /\ Vectors(fetched) = EmbeddingsOf(G)
              /\ \A k \in 1..Len(fetched) : fetched[k].file_id = FileOf(G)

----------------------------------------------------------------------------
(* The old-schema fallback and searches without candidates *)

\* the collection has the older shape: a field of the richer set is missing
OlderShape == collection.exists /\ ~(new_output_fields \subseteq collection.fields)

NoStoreFault == search_events \cap {"search_fault", "query_fault"} = {}

\* the score and metadata the new-schema rerank computes for image_id over
\* the given records once they are carried to the current shape
NewSchemaRerank(image_id, records) ==
    RerankSingleDoc(image_id, search_args.data,
                    [exists |-> TRUE, fields |-> LegacyFields \cup NewFields,
                     rows |-> MigratedBatch(records)],
                    new_output_fields, FALSE, FALSE)

\* C23: on a collection of the older shape a search that meets no store fault
\* ends in the old-schema attempt and returns a list whose entries carry
\* media_type "image", timestamps and duration 0.0 and segment_id "", with
\* the score the new-schema rerank computes over the same records
C23_FallbackReturnsRanking ==
    (search_pc = "done" /\ OlderShape /\ NoStoreFault) =>
        /\ use_old_schema
        /\ Returned
        /\ \A k \in 1..Len(search_result.value) :
              LET e == search_result.value[k]
                  fetched == futures[TaskOf(e.image_id)].out[1].doc_colbert_vecs
              IN  /\ e.media_type = "image"
                  /\ e.timestamp_start = 0
                  /\ e.timestamp_end = 0
                  /\ e.duration = 0
                  /\ e.segment_id = ""
                  /\ e.score = NewSchemaRerank(e.image_id, fetched).score

\* the coarse search of the running attempt found no hit for any query vector
ZeroCandidates ==
    /\ search_pc \in {"fanout", "done"}
    /\ results # <<>>
    /\ Flatten(results) = <<>>

\* C24: a coarse search without hits submits no group fetch, does not start
\* the old-schema attempt and does not raise: search can finish at once and
\* returns the empty list
C24_ZeroCandidatesReturnEmpty ==
    /\ [](ZeroCandidates =>
            /\ futures = <<>>
            /\ scores = <<>>
            /\ search_pc = "fanout" => ENABLED Finish
            /\ search_pc = "done" => Returned /\ search_result.value = <<>>)
    /\ [][(ZeroCandidates /\ search_pc = "fanout" /\ search_pc' # "fanout") =>
             /\ search_pc' = "done"
             /\ use_old_schema' = use_old_schema
             /\ search_result' = [status |-> "returned", value |-> <<>>]]_vars

\* no stored row satisfies the filter of a new-schema search, and an empty
\* list was returned without the old-schema attempt
C24_Witness ==
    /\ ZeroCandidates
    /\ collection.rows # <<>>
    /\ search_args.media_type_filter = "video_frame"
    /\ ~use_old_schema
    /\ Returned
    /\ search_result.value = <<>>

----------------------------------------------------------------------------
(* Monotonicity of the score *)

\* vectors a group may be given in addition to the ones it has
ExtraVectors == {V10, V01, V11, VNeg, <<-1, -1>>, <<2, 2>>, <<0, 0>>}

\* C25: the score computed for a group fetched for a single query vector q
\* and holding q among its vectors is at least q.q, and the score of any
\* fetched group with one more vector is not below its score without it
C25_ScoreMonotone ==
    \A n \in Completed :
       LET data == search_args.data
           vecs == Vectors(futures[n].out[1].doc_colbert_vecs)
       IN  vecs # <<>> =>
              /\ (Len(data) = 1 /\ \E k \in 1..Len(vecs) : vecs[k] = data[1]) =>
                    futures[n].out[1].score >= InnerProduct(data[1], data[1])
              /\ \A v \in ExtraVectors :
                    Score(data, Append(vecs, v)) >= futures[n].out[1].score
              /\ \A v \in ExtraVectors :
                    Score(data, <<v>> \o vecs) >= futures[n].out[1].score

\* a group fetched with the query vector and a vector that matches it worse
C25_Witness ==
    \E n \in Completed :
       LET vecs == Vectors(futures[n].out[1].doc_colbert_vecs)
       IN  /\ search_args.data = <<V10>>
           /\ Len(vecs) = 3
           /\ \E k \in 1..Len(vecs) : vecs[k] = V10
           /\ \E k \in 1..Len(vecs) : InnerProduct(V10, vecs[k]) < InnerProduct(V10, V10)
           /\ futures[n].out[1].score = InnerProduct(V10, V10)

----------------------------------------------------------------------------
(* The fan-out as a scatter-gather *)

AllCompleted == \A n \in 1..Len(futures) : futures[n].state = "done"

\* the pairs of image_id and score the ranking is computed from
RankedPairs == {<<scores[k][2].image_id, scores[k][1]>> : k \in 1..Len(scores)}

\* C27: search leaves a fan-out, to return, to raise or to retry, only when
\* every submitted task has completed; when none of them raised, the pairs
\* that are ranked are the pair of every task, one each, in whatever order
\* the tasks completed, and the list returned is the ranking of these pairs
C27_ScatterGather ==
    /\ [][(search_pc = "fanout" /\ search_pc' # "fanout") => AllCompleted]_vars
    /\ []((search_pc \in {"fanout", "done"} /\ AllCompleted /\ ~SomeRaised) =>
             /\ Len(scores) = Len(futures)
             /\ RankedPairs = {<<futures[n].image_id, futures[n].out[1].score>> :
                                  n \in 1..Len(futures)}
             /\ RankedPairs = {<<g, RerankSingleDoc(g, search_args.data, collection,
                                                    OutputFields(use_old_schema),
                                                    use_old_schema, FALSE).score>> :
                                  g \in Candidates}
             /\ Returned =>
                   {<<search_result.value[k].image_id, search_result.value[k].score>> :
                       k \in 1..Len(search_result.value)} \subseteq RankedPairs)

\* search returned after three tasks that completed in another order than
\* they were submitted in
C27_Witness ==
    /\ Returned
    /\ Len(futures) = 3
    /\ AllCompleted
    /\ scores[1][2].image_id = futures[3].image_id
    /\ scores[3][2].image_id = futures[1].image_id

----------------------------------------------------------------------------
(* The phases of a migration *)

\* the place of a store call in CHECK -> BACKUP -> DROP_AND_RECREATE -> RESTORE
PhaseOf(label) ==
    CASE label = "backup_page" -> 1
      [] label = "drop" -> 2
      [] label = "create" -> 3
      [] label = "insert" -> 4

\* _create_safe_backup has returned, with the rows or with None
BackupFinished == ~backup_data.none \/ "backup" \in faults

\* C26: the store calls of one invocation follow the order backup pages, drop,
\* create, restore batches; the collection is dropped only after the backup
\* has returned; rows are restored only into the created collection; the
\* validation is run only on an outcome with success; and an invocation whose
\* check asks for no migration makes none of these calls
C26_PhasesInOrder ==
    /\ [](/\ \A i, j \in 1..Len(trace) : i < j => PhaseOf(trace[i]) <= PhaseOf(trace[j])
          /\ Cardinality({i \in 1..Len(trace) : trace[i] \in {"drop", "create"}}) <= 2
          /\ "drop" \in Range(trace) => BackupFinished
          /\ "insert" \in Range(trace) => "create" \in Range(trace)
          /\ pc = "validate" => migration_result.success
          /\ (pc # "idle" /\ ~compatibility.needs_migration) =>
                /\ trace = <<>>
                /\ collection = pre
                /\ pc \in {"validate", "done"})
    /\ [][/\ (collection.exists /\ ~collection'.exists) => (pc = "drop" /\ BackupFinished)
          /\ (collection'.rows # collection.rows /\ collection'.exists) =>
                /\ pc = "restore"
                /\ collection.exists
                /\ collection.fields = LegacyFields \cup NewFields
          /\ ("validation" \in DOMAIN migration_result'
                 /\ "validation" \notin DOMAIN migration_result) =>
                (pc = "validate" /\ migration_result.success)]_vars

\* a migration that went through every phase, each of backup and restore
\* with several store calls, and was validated
C26_Witness ==
    /\ Done
    /\ "validation" \in DOMAIN migration_result
    /\ Cardinality({i \in 1..Len(trace) : trace[i] = "backup_page"}) = 2
    /\ Cardinality({i \in 1..Len(trace) : trace[i] = "insert"}) > 2
    /\ "drop" \in Range(trace)
    /\ "create" \in Range(trace)

----------------------------------------------------------------------------
(* BACKUP and RESTORE *)

PagesRead == Cardinality({i \in 1..Len(trace) : trace[i] = "backup_page"})

\* _create_safe_backup has returned the rows it read
BackupReturned == ~backup_data.none /\ "backup" \notin faults

\* C28: while pages are read without failure the rows read so far are the
\* first offset rows of the collection, every page before the last is full,
\* and the backup returned is the sequence of all rows, each once and in
\* order, after Len \div 1000 + 1 page reads: the reading stops at the first
\* page that is empty or shorter than backup_batch_size
C28_BackupReadsEveryRowOnce ==
    /\ []((pc = "backup" /\ "backup" \notin faults) =>
             /\ all_data = SubSeq(pre.rows, 1, offset)
             /\ offset = backup_batch_size * PagesRead
             /\ offset <= Len(pre.rows))
    /\ [](BackupReturned =>
             /\ backup_data.data = pre.rows
             /\ offset = Len(pre.rows)
             /\ PagesRead = (Len(pre.rows) \div backup_batch_size) + 1)
    /\ [][(BackupPage(FALSE) /\ collection.exists) =>
             LET read == Len(all_data') - Len(all_data)
             IN  /\ offset' = offset + read
                 /\ read <= backup_batch_size
                 /\ (pc' = "backup") <=> (read = backup_batch_size)
                 /\ (pc' # "backup") <=> BackupReturned']_vars

\* a collection of exactly one full page was backed up with two page reads
C28_Witness ==
    /\ BackupReturned
    /\ Len(pre.rows) = backup_batch_size
    /\ Len(backup_data.data) = backup_batch_size
    /\ PagesRead = 2

\* the documented defaults of the new fields
NewFieldDefaults ==
    [media_type |-> "image", timestamp_start |-> 0, timestamp_end |-> 0,
     duration |-> 0, segment_id |-> ""]

\* row is the backed-up row b carried to the current shape
CarriedOver(row, b) ==
    /\ DOMAIN row = LegacyFields \cup NewFields
    /\ \A f \in LegacyFields : row[f] = b[f]
    /\ \A f \in NewFields : f \notin DOMAIN b => row[f] = NewFieldDefaults[f]

BatchesInserted == Cardinality({i \in 1..Len(trace) : trace[i] = "insert"})

\* C29: while no insert fails, the created collection holds, in backup order,
\* the carried-over rows of the first BatchesInserted batches of 100 backed-up
\* rows; every successful batch insert adds the next rows, at most 100; and a
\* restore that ends without a failure reports as many records as were
\* backed up
C29_RestoreInBatches ==
    /\ []((pc \in {"restore", "validate", "done"} /\ Truthy(backup_data)
              /\ "create" \in Range(trace) /\ faults \cap {"insert", "create"} = {}) =>
             LET restored == Min(restore_batch_size * BatchesInserted, Len(backup_data.data))
             IN  /\ Len(collection.rows) = restored
                 /\ migrated_count = restored
                 /\ \A n \in 1..restored : CarriedOver(collection.rows[n], backup_data.data[n])
                 /\ pc = "restore" => restored < Len(backup_data.data)
                 /\ pc \in {"validate", "done"} =>
                       /\ restored = Len(backup_data.data)
                       /\ migration_result.data_migrated
                       /\ migration_result.records_processed = Len(backup_data.data))
    /\ [][(RestoreBatch(FALSE) /\ collection.exists) =>
             LET added == Len(collection'.rows) - Len(collection.rows)
             IN  /\ added >= 1
                 /\ added <= restore_batch_size
                 /\ SubSeq(collection'.rows, 1, Len(collection.rows)) = collection.rows
                 /\ added < restore_batch_size => pc' = "validate"]_vars

\* 1001 rows lacking all new fields but media_type were restored in eleven
\* batches
C29_Witness ==
    /\ pc = "validate"
    /\ Len(backup_data.data) = backup_batch_size + 1
    /\ BatchesInserted = 11
    /\ migration_result.records_processed = backup_batch_size + 1
    /\ DOMAIN backup_data.data[1] = LegacyFields \cup {"media_type"}
    /\ collection.rows[backup_batch_size + 1].media_type = backup_data.data[backup_batch_size + 1].media_type
    /\ collection.rows[backup_batch_size + 1].segment_id = ""

\* C30: once a batch insert of the restore has failed the invocation is over:
\* the outcome has success and data_migrated false and an error recorded, no
\* validation is run, and the collection receives no further row
C30_RestoreFailureHalts ==
    /\ []("insert" \in faults =>
             /\ Done
             /\ ~migration_result.success
             /\ ~migration_result.data_migrated
             /\ migration_result.errors # <<>>
             /\ "validation" \notin DOMAIN migration_result
             /\ Len(collection.rows) = restore_batch_size * BatchesInserted
             /\ Len(collection.rows) < Len(backup_data.data))
    /\ [][("insert" \in faults \/ "insert" \in faults') => collection' = collection]_vars

\* the third batch failed after two had been inserted
C30_Witness ==
    /\ Done
    /\ "insert" \in faults
    /\ BatchesInserted = 2
    /\ Len(collection.rows) = 2 * restore_batch_size
    /\ Len(backup_data.data) > 2 * restore_batch_size

----------------------------------------------------------------------------
(* The outcome of a migration *)

\* the counts validate_migration may be asked to compare with
ExpectedCounts == {None, Some(0), Some(Len(collection.rows)), Some(Len(collection.rows) + 1)}

StructuredOutcome(outcome) ==
    /\ {"success", "message"} \subseteq DOMAIN outcome
    /\ outcome.success \in BOOLEAN

\* C31: every invocation ends with an outcome that has a success flag, a
\* message and the records_processed count, also for a missing collection
\* and after any store failure, and validate_migration answers every store
\* state and expected count, a mismatch included, with a success flag and a
\* message
C31_OutcomeIsStructured ==
    /\ pc \in {"validate", "done"} =>
          /\ StructuredOutcome(migration_result)
          /\ "records_processed" \in DOMAIN migration_result
          /\ migration_result.records_processed \in Nat
          /\ "validation" \in DOMAIN migration_result =>
                StructuredOutcome(migration_result.validation)
    /\ \A expected_count \in ExpectedCounts, raises \in BOOLEAN :
          LET validation == ValidateMigration(collection, raises, expected_count)
          IN  /\ StructuredOutcome(validation)
              /\ (~raises /\ collection.exists /\ ~expected_count.none
                     /\ expected_count.data # Len(collection.rows)) => ~validation.success

\* the collection was missing: the migration and its validation both
\* answered with a structured outcome
C31_Witness ==
    /\ Done
    /\ ~pre.exists
    /\ faults = {}
    /\ migration_result.success
    /\ migration_result.message = "Collection does not exist, can create new"
    /\ ~migration_result.validation.success
    /\ migration_result.validation.message = "Collection does not exist after migration"

----------------------------------------------------------------------------
(* Invariants of the stored records *)

\* a record of a page has no segment id, a record of an audio or video
\* segment has its image_id as segment id
SegmentRelation(record) ==
    "segment_id" \in DOMAIN record =>
        record.segment_id = IF record.media_type = "image" THEN "" ELSE record.image_id

\* C32: every record in the store written through insert_media_to_milvus
\* (media_type audio or video_frame) has segment_id equal to its image_id,
\* every record written through insert_to_milvus (media_type image) has
\* segment_id "", the rows carried over by a restore included, and a restore
\* of any stored row keeps its segment_id and image_id
C32_SegmentIdMatchesGroup ==
    \A n \in 1..Len(collection.rows) :
       LET record == collection.rows[n]
       IN  /\ SegmentRelation(record)
           /\ SegmentRelation(MigratedRecord(record))
           /\ MigratedRecord(record).image_id = record.image_id
           /\ "segment_id" \in DOMAIN record =>
                 /\ record.media_type \in IngestMediaTypes \cup {"image"}
                 /\ MigratedRecord(record).segment_id = record.segment_id

\* a recreated collection holding a restored page row, a restored segment
\* row and a segment row ingested after it
C32_Witness ==
    /\ call.op = "create_collection"
    /\ Len(collection.rows) >= 3
    /\ collection.rows[1].media_type = "image"
    /\ collection.rows[1].segment_id = ""
    /\ \E n \in 2..Len(collection.rows) :
          /\ collection.rows[n].media_type = "audio"
          /\ collection.rows[n].segment_id = collection.rows[n].image_id
    /\ \E n \in 1..Len(pre.rows) :
          "segment_id" \in DOMAIN pre.rows[n] /\ pre.rows[n].segment_id # ""
    /\ Len(collection.rows) > Len(pre.rows)

\* a is b with some of its elements left out
RECURSIVE IsSubsequence(_, _)
IsSubsequence(a, b) ==
    IF a = <<>> THEN TRUE
    ELSE IF b = <<>> THEN FALSE
    ELSE IF a[1] = b[1] THEN IsSubsequence(Tail(a), Tail(b))
    ELSE IsSubsequence(a, Tail(b))

IsPrefix(a, b) == Len(a) <= Len(b) /\ SubSeq(b, 1, Len(a)) = a

\* some part of the state of a search has changed
SearchStep ==
    <<search_pc, search_args, use_old_schema, results, futures, scores,
      search_result, search_events>>' #
    <<search_pc, search_args, use_old_schema, results, futures, scores,
      search_result, search_events>>

\* C33: a step of insert leaves every stored record as it is and adds
\* records after them, a step of delete_files leaves the records it does not
\* remove as they are and in order, and every step of a search, of either
\* attempt, leaves the collection as it is; the collection's fields and
\* existence never change
C33_NeverUpdatedInPlace ==
    [][/\ inserts' # inserts =>
             /\ IsPrefix(collection.rows, collection'.rows)
             /\ Len(collection'.rows) > Len(collection.rows)
       /\ inserts' = inserts => IsSubsequence(collection'.rows, collection.rows)
       /\ SearchStep => collection' = collection
       /\ collection'.fields = collection.fields
       /\ collection'.exists = collection.exists]_vars

\* records were inserted, a search ran both attempts, and a delete_files
\* during its fan-out removed a group and left other records
C33_Witness ==
    /\ search_pc = "done"
    /\ inserts > 0
    /\ use_old_schema
    /\ "dangling" \in search_events
    /\ collection.rows # <<>>

----------------------------------------------------------------------------
(* Migrations next to other writers *)

\* C34: when a migration has reported success, every record whose insert
\* call returned without exception up to then is in the collection
C34_MigrationKeepsInsertedRows ==
    (pc \in {"validate", "done"} /\ migration_result.success) =>
        \A n \in 1..Len(Inserted) :
           \E k \in 1..Len(collection.rows) : collection.rows[k] = Inserted[n]

----------------------------------------------------------------------------
(* The outcome of a migration against the store *)

\* C36: whenever safe_migrate_collection has reported success, the collection
\* exists and its schema has the five optional fields, also when the
\* compatibility check raised
C36_SuccessMeansNewSchema ==
    (pc \in {"validate", "done"} /\ migration_result.success) =>
        /\ collection.exists
        /\ NewFields \subseteq collection.fields

\* the rows this run inserted into the recreated collection
RowsInserted ==
    IF "create" \in {trace[i] : i \in 1..Len(trace)} /\ collection.exists
    THEN Len(collection.rows) ELSE 0

\* C37: records_processed of the outcome equals the number of rows the run
\* inserted into the recreated collection, on success and on failure
C37_RecordsProcessedIsRowsInserted ==
    Done => migration_result.records_processed = RowsInserted

----------------------------------------------------------------------------
(* Two migrations of one collection *)

BothDone == pc = "done" /\ other.pc = "done"

\* the collection before either invocation touched it
Original == IF pre.exists /\ pre.fields = LegacyFields THEN pre ELSE other.pre

Occurrences(rows, r) == Cardinality({k \in 1..Len(rows) : rows[k] = r})

\* C35: when two concurrent invocations have both returned and no store call
\* failed, the collection holds exactly the original rows: none is missing and
\* none is there twice
C35_TwoMigrationsKeepTheRows ==
    BothDone =>
        /\ collection.exists
        /\ Len(collection.rows) = Len(Original.rows)
        /\ \A n \in 1..Len(Original.rows) :
              Occurrences(collection.rows, MigratedRecord(Original.rows[n])) =
              Occurrences(Original.rows, Original.rows[n])

----------------------------------------------------------------------------
(* The results the caller uses *)

Retrieved == caller.pc \in {"lookup", "done"}

Descending(items) == \A n \in 1..(Len(items) - 1) : items[n].score >= items[n + 1].score

InRange(item, min_score, max_score) ==
    /\ min_score.none \/ item.score >= min_score.data
    /\ max_score.none \/ item.score <= max_score.data

ScoreBounds == {None, Some(10)}

\* C38: over several bases the results used are at most top_K in total, each
\* with score >= score_threshold, in descending score order, and no result
\* that meets the threshold and was left out has a score greater than a used
\* one; sort_and_filter returns exactly the items with
\* min_score <= score <= max_score, in descending score order
C38_TopKAcrossBases ==
    /\ Retrieved =>
          /\ Len(caller.cut_score) <= caller.top_K
          /\ \A n \in 1..Len(caller.cut_score) :
                /\ caller.cut_score[n].score >= caller.score_threshold
                /\ Occurrences(caller.cut_score, caller.cut_score[n]) <=
                      Occurrences(caller.result_score, caller.cut_score[n])
          /\ Descending(caller.cut_score)
          /\ \A m \in 1..Len(caller.result_score) :
                (/\ caller.result_score[m].score >= caller.score_threshold
                 /\ Occurrences(caller.cut_score, caller.result_score[m]) = 0) =>
                    \A n \in 1..Len(caller.cut_score) :
                       caller.result_score[m].score <= caller.cut_score[n].score
    /\ \A min_score \in ScoreBounds, max_score \in ScoreBounds :
          LET out == SortAndFilter(caller.result_score, min_score, max_score)
          IN  /\ Descending(out)
              /\ \A n \in 1..Len(out) : InRange(out[n], min_score, max_score)
              /\ \A m \in 1..Len(caller.result_score) :
                    Occurrences(out, caller.result_score[m]) =
                       IF InRange(caller.result_score[m], min_score, max_score)
                       THEN Occurrences(caller.result_score, caller.result_score[m])
                       ELSE 0
              /\ \A n \in 1..Len(out) : Occurrences(caller.result_score, out[n]) > 0

\* two bases returned results; one result is below the threshold, the cut is
\* full with results of both bases, and a result that meets the threshold was
\* left out
C38_Witness ==
    /\ caller.pc = "done"
    /\ caller.top_K = 2
    /\ caller.score_threshold = 10
    /\ Len(caller.cut_score) = 2
    /\ caller.cut_score[1].collection_name = BaseName(2)
    /\ caller.cut_score[2].collection_name = BaseName(1)
    /\ caller.cut_score[1].score > caller.cut_score[2].score
    /\ \E m \in 1..Len(caller.result_score) : caller.result_score[m].score < 10
    /\ \E m \in 1..Len(caller.result_score) :
          /\ caller.result_score[m].score >= 10
          /\ Occurrences(caller.cut_score, caller.result_score[m]) = 0

----------------------------------------------------------------------------
(* Termination of the BACKUP loop *)

\* C39: the loop of _create_safe_backup ends: an iteration either leaves the
\* loop or moves the offset on by a full page, the pages read never exceed
\* floor(rows / 1000) + 1, and a loop that was entered is left
C39_BackupLoopTerminates ==
    /\ [](pc # "idle" => PagesRead <= (Len(pre.rows) \div backup_batch_size) + 1)
    /\ [][(pc = "backup" /\ pc' = "backup") =>
             /\ offset' = offset + backup_batch_size
             /\ offset' <= Len(collection.rows)]_vars
    /\ (pc = "backup" ~> pc # "backup")

\* the loop was left after the third page, which was empty
C39_Witness ==
    /\ pc = "drop"
    /\ BackupReturned
    /\ PagesRead = 3
    /\ offset = 2 * backup_batch_size
    /\ Len(collection.rows) = offset

============================================================================
